---- MODULE Spec2Model ----
(***************************************************************************)
(* Classification / extraction / serialization pipeline of the CBAM        *)
(* middleware (backend/app/agents).                                        *)
(*                                                                         *)
(* Representation.                                                         *)
(*  - A text (product description, document text) is a sequence of         *)
(*    lexemes.  A lexeme is a maximal run of characters of one class:      *)
(*    [k |-> class, w |-> the run in lower case, up |-> whether the run    *)
(*    holds an upper-case letter].  Classes: "word" (letters a-z),         *)
(*    "digit" (digits: word characters that are no letters), "space"       *)
(*    (white space), "punct" (any other non-word character).               *)
(*  - Python floats of the classifier are exact rationals: a score is an   *)
(*    integer number of 1/(1000 * den) where den = 150 * |keywords| is     *)
(*    the normaliser of the call (0.15 per keyword, in thousandths).       *)
(*  - Optional values are sequences of length 0 (None) or 1.               *)
(*  - CN codes are the 8-digit numbers themselves; a two-character entry   *)
(*    of the keyword table ("72") is the number below 100.                 *)
(***************************************************************************)
EXTENDS Integers, Sequences, FiniteSets, TLC

VARIABLES
    \* ClassifierAgent
    cls_is_loaded,   \* self._is_loaded
    use_cache,       \* self.use_cache
    cache,           \* self._cache : cache key -> ClassificationResult
    cls_op,          \* the last public call: "init", "load", "classify", "batch", "clear"
    cls_in,          \* the descriptions passed to the last classify / batch_classify
    cls_out,         \* the results it returned, in order
    pending,         \* <<d>>: a description waiting for a lone classify; <<>>: none
    \* SerializerAgent and the report of its caller
    report,          \* the CBAMReport object
    xml_out,         \* the tree generate_xml last returned for the report as it is now
    ser_calls,       \* generate_xml calls since the caller last changed the report (<= 2)
    totals_in,       \* the totals the report held when generate_xml was last entered
    \* ExtractorAgent
    ext_is_loaded,   \* self._is_loaded
    ext_text,        \* the text PyPDF2 reads from the document
    ext_filename,    \* the file name passed with it
    ext_out,         \* the ExtractedActivityData returned, if any
    ext_backend,     \* self.backend
    ext_api_key,     \* self.openai_api_key
    ext_configured,  \* the backend the constructor was given
    ext_calls,       \* extract_from_pdf calls made so far
    \* SerializerAgent._format_cn_code on its own
    fmt_in,          \* the code string
    fmt_out,         \* _format_cn_code(fmt_in), once called
    fmt_again,       \* _format_cn_code(fmt_out), once called
    \* SerializerAgent: the XSD schema and validate_xml
    schema_file,     \* what is at self.schema_path: "absent", "valid", "invalid"
    _schema,         \* self._schema
    ser_is_loaded,   \* self._is_loaded
    schema_reads,    \* times the schema file was read and parsed
    val_in,          \* the bytes last passed to validate_xml
    val_out,         \* the ValidationResult it returned
    \* ExtractorAgent.validate_extraction on its own
    chk_data,        \* the ExtractedActivityData passed
    chk_issues,      \* the issues returned, once called
    \* UnitConverter.normalize_country on its own
    cty_in,          \* country_text
    cty_out,         \* the value returned, once called
    \* services/cbam_validation.validate_cbam_report
    cbam_report,     \* the report dict
    cbam_result,     \* the ValidationResult returned, once called
    \* classify calls in progress on one ClassifierAgent
    tasks,           \* per call: its text, its position, whether it hit the cache, its result
    \* ClassifierAgent._calculate_match_score on its own
    score_keywords,  \* keywords
    score_code,      \* code
    score_out,       \* the normalized score before the adjustment and the score returned
    \* api/v1/cbam_engine.full_pipeline on the module's classifier and serializer
    pipe_request,    \* the FullPipelineRequest of the last call
    pipe_response,   \* the FullPipelineResponse returned
    pipe_calls,      \* calls of the endpoint so far
    \* UnitConverter.to_kwh and to_kg on the units the patterns capture
    unit_family,     \* "energy" or "weight"
    unit_token,      \* the unit group of a match
    unit_value,      \* the parsed number, in thousandths
    unit_out         \* the converted value, once called

clsVars == <<cls_is_loaded, use_cache, cache, cls_op, cls_in, cls_out, pending>>
serVars == <<report, xml_out, ser_calls, totals_in>>
extVars == <<ext_is_loaded, ext_text, ext_filename, ext_out,
             ext_backend, ext_api_key, ext_configured, ext_calls>>
fmtVars == <<fmt_in, fmt_out, fmt_again>>
valVars == <<schema_file, _schema, ser_is_loaded, schema_reads, val_in, val_out>>
chkVars == <<chk_data, chk_issues>>
ctyVars == <<cty_in, cty_out>>
cbamVars == <<cbam_report, cbam_result>>
taskVars == <<tasks>>
scoreVars == <<score_keywords, score_code, score_out>>
pipeVars == <<pipe_request, pipe_response, pipe_calls>>
unitVars == <<unit_family, unit_token, unit_value, unit_out>>
vars == <<clsVars, serVars, extVars, fmtVars, valVars, chkVars, ctyVars, cbamVars, taskVars, scoreVars, pipeVars, unitVars>>

None == <<>>
Some(x) == <<x>>

Range(s) == {s[i] : i \in DOMAIN s}
Min(a, b) == IF a <= b THEN a ELSE b

(***************************************************************************)
(* Lexemes                                                                 *)
(***************************************************************************)
Word(w)   == [k |-> "word",  w |-> w, up |-> FALSE]
WordU(w)  == [k |-> "word",  w |-> w, up |-> TRUE]
Digits(w) == [k |-> "digit", w |-> w, up |-> FALSE]
Punct(w)  == [k |-> "punct", w |-> w, up |-> FALSE]
Space(w)  == [k |-> "space", w |-> w, up |-> FALSE]
Sp  == Space(" ")
Sp2 == Space("  ")
Hy  == Punct("-")

\* every lexeme is a maximal run: no two neighbours of one class
IsText(t) == \A i \in 1..(Len(t) - 1) : t[i].k # t[i + 1].k

\* str.lower()
Lower(t) == [i \in DOMAIN t |-> [t[i] EXCEPT !.up = FALSE]]

\* str.strip(): leading and trailing white space removed
Strip(t) ==
    LET lo == IF Len(t) > 0 /\ t[1].k = "space" THEN 2 ELSE 1
        hi == IF Len(t) > 0 /\ t[Len(t)].k = "space" THEN Len(t) - 1 ELSE Len(t)
    IN  IF lo > hi THEN <<>> ELSE SubSeq(t, lo, hi)

\* re.sub(r'\s+', ' ', t): every run of white space becomes one blank
CollapseSpace(t) == [i \in DOMAIN t |-> IF t[i].k = "space" THEN Sp ELSE t[i]]

(***************************************************************************)
(* Reference tables (classifier_agent.py)                                  *)
(***************************************************************************)
CBAM_CHAPTERS ==
    (25 :> "cement") @@ (26 :> "iron_steel") @@ (27 :> "electricity") @@
    (28 :> "hydrogen") @@ (31 :> "fertilizers") @@ (72 :> "iron_steel") @@
    (73 :> "iron_steel") @@ (76 :> "aluminium")

\* direct / indirect tCO2 per tonne and MWh per tonne, in thousandths
DEFAULT_EMISSION_FACTORS ==
    ("iron_steel"  :> [direct |-> 1900, indirect |-> 300,  electricity |-> 500]) @@
    ("aluminium"   :> [direct |-> 8000, indirect |-> 6500, electricity |-> 14000]) @@
    ("cement"      :> [direct |-> 650,  indirect |-> 80,   electricity |-> 100]) @@
    ("fertilizers" :> [direct |-> 2500, indirect |-> 200,  electricity |-> 300]) @@
    ("hydrogen"    :> [direct |-> 9000, indirect |-> 3000, electricity |-> 50000]) @@
    ("electricity" :> [direct |-> 0,    indirect |-> 500,  electricity |-> 1000])

CN_CODE_DATABASE ==
  <<
    [code |-> 72061000, chapter |-> 72, heading |-> 7206],
    [code |-> 72071100, chapter |-> 72, heading |-> 7207],
    [code |-> 72071200, chapter |-> 72, heading |-> 7207],
    [code |-> 72081000, chapter |-> 72, heading |-> 7208],
    [code |-> 72082500, chapter |-> 72, heading |-> 7208],
    [code |-> 72083600, chapter |-> 72, heading |-> 7208],
    [code |-> 72085191, chapter |-> 72, heading |-> 7208],
    [code |-> 72091500, chapter |-> 72, heading |-> 7209],
    [code |-> 72091690, chapter |-> 72, heading |-> 7209],
    [code |-> 72101100, chapter |-> 72, heading |-> 7210],
    [code |-> 72103000, chapter |-> 72, heading |-> 7210],
    [code |-> 72104100, chapter |-> 72, heading |-> 7210],
    [code |-> 72104900, chapter |-> 72, heading |-> 7210],
    [code |-> 72106100, chapter |-> 72, heading |-> 7210],
    [code |-> 72139100, chapter |-> 72, heading |-> 7213],
    [code |-> 72142000, chapter |-> 72, heading |-> 7214],
    [code |-> 72163100, chapter |-> 72, heading |-> 7216],
    [code |-> 72163300, chapter |-> 72, heading |-> 7216],
    [code |-> 73041100, chapter |-> 73, heading |-> 7304],
    [code |-> 73041900, chapter |-> 73, heading |-> 7304],
    [code |-> 73042300, chapter |-> 73, heading |-> 7304],
    [code |-> 73042900, chapter |-> 73, heading |-> 7304],
    [code |-> 73051100, chapter |-> 73, heading |-> 7305],
    [code |-> 73063000, chapter |-> 73, heading |-> 7306],
    [code |-> 73066100, chapter |-> 73, heading |-> 7306],
    [code |-> 73071100, chapter |-> 73, heading |-> 7307],
    [code |-> 73089000, chapter |-> 73, heading |-> 7308],
    [code |-> 73101000, chapter |-> 73, heading |-> 7310],
    [code |-> 73110000, chapter |-> 73, heading |-> 7311],
    [code |-> 73170000, chapter |-> 73, heading |-> 7317],
    [code |-> 73181100, chapter |-> 73, heading |-> 7318],
    [code |-> 73181200, chapter |-> 73, heading |-> 7318],
    [code |-> 73181300, chapter |-> 73, heading |-> 7318],
    [code |-> 73181400, chapter |-> 73, heading |-> 7318],
    [code |-> 73181500, chapter |-> 73, heading |-> 7318],
    [code |-> 73181590, chapter |-> 73, heading |-> 7318],
    [code |-> 73181600, chapter |-> 73, heading |-> 7318],
    [code |-> 73181691, chapter |-> 73, heading |-> 7318],
    [code |-> 73181900, chapter |-> 73, heading |-> 7318],
    [code |-> 73182100, chapter |-> 73, heading |-> 7318],
    [code |-> 73182200, chapter |-> 73, heading |-> 7318],
    [code |-> 73182400, chapter |-> 73, heading |-> 7318],
    [code |-> 73194000, chapter |-> 73, heading |-> 7319],
    [code |-> 73202000, chapter |-> 73, heading |-> 7320],
    [code |-> 76011000, chapter |-> 76, heading |-> 7601],
    [code |-> 76012000, chapter |-> 76, heading |-> 7601],
    [code |-> 76020000, chapter |-> 76, heading |-> 7602],
    [code |-> 76031000, chapter |-> 76, heading |-> 7603],
    [code |-> 76041010, chapter |-> 76, heading |-> 7604],
    [code |-> 76042100, chapter |-> 76, heading |-> 7604],
    [code |-> 76042900, chapter |-> 76, heading |-> 7604],
    [code |-> 76051100, chapter |-> 76, heading |-> 7605],
    [code |-> 76052100, chapter |-> 76, heading |-> 7605],
    [code |-> 76061100, chapter |-> 76, heading |-> 7606],
    [code |-> 76061191, chapter |-> 76, heading |-> 7606],
    [code |-> 76061200, chapter |-> 76, heading |-> 7606],
    [code |-> 76061291, chapter |-> 76, heading |-> 7606],
    [code |-> 76061299, chapter |-> 76, heading |-> 7606],
    [code |-> 76071100, chapter |-> 76, heading |-> 7607],
    [code |-> 76071900, chapter |-> 76, heading |-> 7607],
    [code |-> 76081000, chapter |-> 76, heading |-> 7608],
    [code |-> 76082000, chapter |-> 76, heading |-> 7608],
    [code |-> 76090000, chapter |-> 76, heading |-> 7609],
    [code |-> 76101000, chapter |-> 76, heading |-> 7610],
    [code |-> 76109000, chapter |-> 76, heading |-> 7610],
    [code |-> 25231000, chapter |-> 25, heading |-> 2523],
    [code |-> 25232100, chapter |-> 25, heading |-> 2523],
    [code |-> 25232900, chapter |-> 25, heading |-> 2523],
    [code |-> 25233000, chapter |-> 25, heading |-> 2523],
    [code |-> 25239000, chapter |-> 25, heading |-> 2523],
    [code |-> 31021000, chapter |-> 31, heading |-> 3102],
    [code |-> 31022100, chapter |-> 31, heading |-> 3102],
    [code |-> 31023000, chapter |-> 31, heading |-> 3102],
    [code |-> 31024000, chapter |-> 31, heading |-> 3102],
    [code |-> 31025000, chapter |-> 31, heading |-> 3102],
    [code |-> 31028000, chapter |-> 31, heading |-> 3102],
    [code |-> 31031100, chapter |-> 31, heading |-> 3103],
    [code |-> 31039000, chapter |-> 31, heading |-> 3103],
    [code |-> 31052000, chapter |-> 31, heading |-> 3105],
    [code |-> 28041000, chapter |-> 28, heading |-> 2804]
  >>
SEMANTIC_KEYWORDS ==
    ("screw" :> <<73181500, 73181590, 73181400, 73181300, 73181200, 73181100>>) @@
    ("screws" :> <<73181500, 73181590, 73181400>>) @@
    ("bolt" :> <<73181500, 73181590, 73181900>>) @@
    ("bolts" :> <<73181500, 73181590>>) @@
    ("nut" :> <<73181600, 73181691>>) @@
    ("nuts" :> <<73181600, 73181691>>) @@
    ("fastener" :> <<73181500, 73181600, 73181900>>) @@
    ("fasteners" :> <<73181500, 73181600>>) @@
    ("washer" :> <<73182100, 73182200>>) @@
    ("washers" :> <<73182100, 73182200>>) @@
    ("nail" :> <<73170000>>) @@
    ("nails" :> <<73170000>>) @@
    ("spring" :> <<73202000, 73182100>>) @@
    ("pipe" :> <<73041900, 73051100, 73063000>>) @@
    ("pipes" :> <<73041900, 73063000>>) @@
    ("tube" :> <<73041900, 73063000, 73066100>>) @@
    ("tubes" :> <<73063000, 73066100>>) @@
    ("tank" :> <<73101000, 73110000>>) @@
    ("container" :> <<73110000, 73101000>>) @@
    ("structure" :> <<73089000>>) @@
    ("beam" :> <<72163100, 72163300>>) @@
    ("section" :> <<72163100, 72163300>>) @@
    ("coil" :> <<72081000, 72082500, 72083600>>) @@
    ("coils" :> <<72081000, 72082500>>) @@
    ("sheet" :> <<72085191, 72091500, 72091690, 76061191, 76061291>>) @@
    ("sheets" :> <<72085191, 72091500, 76061291>>) @@
    ("plate" :> <<72085191, 76061191, 76061291>>) @@
    ("plates" :> <<72085191, 76061191>>) @@
    ("flat-rolled" :> <<72081000, 72085191, 72091500, 72104100>>) @@
    ("hot-rolled" :> <<72081000, 72082500, 72083600, 72085191>>) @@
    ("cold-rolled" :> <<72091500, 72091690>>) @@
    ("galvanized" :> <<72104100, 72104900, 72103000>>) @@
    ("zinc" :> <<72103000, 72104100, 72104900>>) @@
    ("tin" :> <<72101100>>) @@
    ("wire" :> <<72139100, 76051100, 76052100>>) @@
    ("rod" :> <<72139100, 72142000>>) @@
    ("bar" :> <<72142000, 76041010, 76042900>>) @@
    ("ingot" :> <<72061000, 76011000>>) @@
    ("aluminum" :> <<76061191, 76061291, 76011000, 76012000, 76071100>>) @@
    ("aluminium" :> <<76061191, 76061291, 76011000, 76012000, 76071100>>) @@
    ("foil" :> <<76071100, 76071900>>) @@
    ("profile" :> <<76042100, 76042900>>) @@
    ("profiles" :> <<76042100, 76042900>>) @@
    ("extrusion" :> <<76042100, 76042900>>) @@
    ("window" :> <<76101000>>) @@
    ("door" :> <<76101000>>) @@
    ("cement" :> <<25232900, 25232100, 25231000, 25233000>>) @@
    ("portland" :> <<25232900, 25232100>>) @@
    ("clinker" :> <<25231000>>) @@
    ("hydraulic" :> <<25239000>>) @@
    ("fertilizer" :> <<31052000, 31021000, 31023000>>) @@
    ("fertiliser" :> <<31052000, 31021000>>) @@
    ("urea" :> <<31021000, 31028000>>) @@
    ("ammonium" :> <<31022100, 31023000, 31024000, 31028000>>) @@
    ("nitrate" :> <<31023000, 31024000, 31025000>>) @@
    ("phosphate" :> <<31031100, 31039000>>) @@
    ("npk" :> <<31052000>>) @@
    ("hydrogen" :> <<28041000>>) @@
    ("steel" :> <<72, 73>>) @@
    ("iron" :> <<72, 73>>) @@
    ("stainless" :> <<73041100, 73042300>>) @@
    ("alloy" :> <<76012000, 76042100, 76061291>>)

stop_words == {"of", "the", "and", "or", "for", "with", "in", "on", "at", "to", "a", "an"}

\* thresholds and weights, in thousandths
CONFIDENCE_THRESHOLD == 850
HIGH_CONFIDENCE_THRESHOLD == 920
EXACT_MATCH_WEIGHT == 250
CHAPTER_MATCH_WEIGHT == 100
KEYWORD_NORMALISER == 150
NO_KEYWORD_SCORE == 500
BOOST_THREE == 150
CAP_THREE == 980
BOOST_TWO == 80
CAP_TWO == 950
CONSIDERATION_THRESHOLD == 300
FALLBACK_CODE == 73181500
FALLBACK_CONFIDENCE == 400
MAX_ALTERNATIVES == 3

(***************************************************************************)
(* ClassifierAgent                                                         *)
(***************************************************************************)
\* a key that keeps the first three lexemes only
_get_cache_key_prefix(text) == SubSeq(Lower(text), 1, Min(Len(text), 3))

\* hashlib.md5 of the normalised text; the digest is the normalised text
\* itself (md5 is injective on the texts of the model)
_get_cache_key(text) == CollapseSpace(Strip(Lower(text)))

\* re.findall(r'\b[a-z]+\b', text.lower()): a run of letters is a word when
\* no digit touches it; stop words and words of at most 2 letters dropped
_extract_keywords(text) ==
    LET t == Lower(text)
        bounded(i) == /\ (i > 1 => t[i - 1].k # "digit")
                      /\ (i < Len(t) => t[i + 1].k # "digit")
        words == {t[i].w : i \in {j \in DOMAIN t : t[j].k = "word" /\ bounded(j)}}
    IN  {w \in words : w \notin stop_words /\ Len(w) > 2}

\* the denominator of the scores of one call: len(keywords) * 0.15
ScoreDen(keywords) ==
    IF Cardinality(keywords) > 0 THEN Cardinality(keywords) * KEYWORD_NORMALISER
    ELSE 1

\* code.startswith(c) for a two-character entry c
IsChapterEntry(c) == c < 100
ChapterOf(code) == code \div 1000000

\* the adjustment for the number of matched keywords (lines 365-369)
AdjustScore(normalized, nmatched, den) ==
    IF nmatched >= 3
    THEN Min(normalized + BOOST_THREE * den, CAP_THREE * den)
    ELSE IF nmatched >= 2
    THEN Min(normalized + BOOST_TWO * den, CAP_TWO * den)
    ELSE normalized

\* the normalisation of the summed weights (lines 359-363)
NormalizeScore(base, nkeywords, den) ==
    IF nkeywords > 0 THEN Min(1000 * base, 1000 * den) ELSE NO_KEYWORD_SCORE * den

ScoreOf(exact, chap, nkeywords, den, code) ==
    [code |-> code,
     score |-> AdjustScore(
                   NormalizeScore(EXACT_MATCH_WEIGHT * Cardinality(exact)
                                    + CHAPTER_MATCH_WEIGHT * Cardinality(chap),
                                  nkeywords, den),
                   Cardinality(exact) + Cardinality(chap), den),
     matched |-> {<<kw, "exact">> : kw \in exact} \cup {<<kw, "chapter">> : kw \in chap}]

\* the loop over the keywords (lines 347-357), codes being the table
\* restricted to the keywords of the text that are keys of it
MatchScore(codes, keywords, code) ==
    ScoreOf({kw \in DOMAIN codes : code \in Range(codes[kw])},
            {kw \in DOMAIN codes :
                /\ code \notin Range(codes[kw])
                /\ \E c \in Range(codes[kw]) : IsChapterEntry(c) /\ ChapterOf(code) = c},
            Cardinality(keywords), ScoreDen(keywords), code)

KnownKeywords(table, keywords) ==
    [kw \in {k \in keywords : k \in DOMAIN table} |-> table[kw]]

_calculate_match_score(keywords, code) ==
    MatchScore(KnownKeywords(SEMANTIC_KEYWORDS, keywords), keywords, code)

\* list.sort(key=score, reverse=True): stable, so the candidates of one score
\* keep their order; the groups follow one another from the highest score down
RECURSIVE SortGroups(_, _)
SortGroups(s, scores) ==
    IF scores = {} THEN <<>>
    ELSE LET top == CHOOSE m \in scores : \A x \in scores : x <= m
         IN  SelectSeq(s, LAMBDA sc : sc.score = top) \o SortGroups(s, scores \ {top})

SortByScore(s) == SortGroups(s, {s[i].score : i \in DOMAIN s})

\* round(confidence, 3): the nearest thousandth, ties to even
Round3(score, den) ==
    LET q == score \div den
        r == score % den
    IN  IF 2 * r > den \/ (2 * r = den /\ q % 2 = 1) THEN q + 1 ELSE q

\* f"{c[:4]} {c[4:6]} {c[6:]}"
FormatCode(c) == <<c \div 10000, (c \div 100) % 100, c % 100>>

\* a lookup that gives the default entry to every code
CodeInfoIn_default(db, code) == [code |-> code, chapter |-> 73, heading |-> 7318]

\* CN_CODE_DATABASE.get(code, {"desc": "Unknown", "chapter": "73", "heading": "7318"})
CodeInfoIn(db, code) ==
    IF \E i \in DOMAIN db : db[i].code = code
    THEN db[CHOOSE i \in DOMAIN db : db[i].code = code]
    ELSE [code |-> code, chapter |-> 73, heading |-> 7318]

\* a review status that approves from the higher threshold only
ReviewStatusOf_high_only(confidence, den) ==
    IF confidence >= HIGH_CONFIDENCE_THRESHOLD * den THEN "approved" ELSE "needs_review"

\* lines 418-424: the review status of a confidence
ReviewStatusOf(confidence, den) ==
    IF confidence >= HIGH_CONFIDENCE_THRESHOLD * den THEN "approved"
    ELSE IF confidence >= CONFIDENCE_THRESHOLD * den THEN "approved"
    ELSE "needs_review"

\* lines 405-455: the result built from the chosen code
BuildResult(best_code, confidence, matched_keywords, code_info, alternatives, den) ==
    [cn_code |-> best_code,
     cn_code_formatted |-> FormatCode(best_code),
     confidence |-> Round3(confidence, den),
     review_status |-> ReviewStatusOf(confidence, den),
     chapter |-> code_info.chapter,
     heading |-> code_info.heading,
     subheading |-> best_code,
     is_cbam_relevant |-> code_info.chapter \in DOMAIN CBAM_CHAPTERS,
     cbam_category |-> IF code_info.chapter \in DOMAIN CBAM_CHAPTERS
                       THEN Some(CBAM_CHAPTERS[code_info.chapter]) ELSE None,
     emission_factor |-> IF code_info.chapter \in DOMAIN CBAM_CHAPTERS
                         THEN Some(DEFAULT_EMISSION_FACTORS[CBAM_CHAPTERS[code_info.chapter]])
                         ELSE None,
     alternative_codes |-> alternatives,
     matched_keywords |-> matched_keywords,
     classification_notes |->
         (IF code_info.chapter \notin DOMAIN CBAM_CHAPTERS THEN <<"not_cbam">> ELSE <<>>)
         \o (IF confidence < CONFIDENCE_THRESHOLD * den
             THEN <<"recommend_human_verification">> ELSE <<>>)]

\* scored_codes[1:4] as (formatted code, score) pairs (lines 427-430)
Alternatives(scored_codes, den) ==
    [i \in 1..Min(Len(scored_codes) - 1, MAX_ALTERNATIVES) |->
        [code |-> FormatCode(scored_codes[i + 1].code),
         score |-> scored_codes[i + 1].score,
         den |-> 1000 * den]]

\* lines 398-403: the best candidate, or the fallback
ChooseBest(db, scored_codes, den) ==
    IF Len(scored_codes) > 0
    THEN BuildResult(scored_codes[1].code, scored_codes[1].score, scored_codes[1].matched,
                     CodeInfoIn(db, scored_codes[1].code),
                     Alternatives(scored_codes, den), den)
    ELSE BuildResult(FALLBACK_CODE, FALLBACK_CONFIDENCE * den, {},
                     CodeInfoIn(db, FALLBACK_CODE), <<>>, den)

\* lines 388-396: every code of the taxonomy scored, those above 0.3 kept, sorted
ScoreAll(db, keywords) ==
    SortByScore(SelectSeq([i \in DOMAIN db |-> _calculate_match_score(keywords, db[i].code)],
                          LAMBDA sc : sc.score > CONSIDERATION_THRESHOLD * ScoreDen(keywords)))

ClassifyKeywords(db, keywords) == ChooseBest(db, ScoreAll(db, keywords), ScoreDen(keywords))

\* the body of classify below the cache lookup (lines 385-455)
ComputeClassification(product_description) ==
    ClassifyKeywords(CN_CODE_DATABASE, _extract_keywords(product_description))

(***************************************************************************)
(* Inputs of the model                                                     *)
(***************************************************************************)
MaxBatch == 2

\* Scenario A: "stainless steel cold-rolled coil"
DescStainless == <<Word("stainless"), Sp, Word("steel"), Sp, Word("cold"), Hy,
                   Word("rolled"), Sp, Word("coil")>>
\* Scenario B: "xyzzy nonsense product"
DescNonsense == <<Word("xyzzy"), Sp, Word("nonsense"), Sp, Word("product")>>
\* "": no token at all
DescEmpty == <<>>
\* " Steel  Coil" and "steel coil": one normalised form
DescSteelCoilRaw == <<Sp, WordU("steel"), Sp2, WordU("coil")>>
DescSteelCoil == <<Word("steel"), Sp, Word("coil")>>
\* "steel coil xyzzy"
DescSteelCoilX == <<Word("steel"), Sp, Word("coil"), Sp, Word("xyzzy")>>

Descriptions == {DescStainless, DescNonsense, DescEmpty, DescSteelCoilRaw,
                 DescSteelCoil, DescSteelCoilX}

Batches == UNION {[1..n -> Descriptions] : n \in 0..MaxBatch}

\* "iron steel screw": three matched keywords
DescIronSteelScrew == <<Word("iron"), Sp, Word("steel"), Sp, Word("screw")>>

\* the texts of at most MaxLexemes lexemes over Lexicon
MaxLexemes == 3
Lexicon == {Word("steel"), WordU("steel"), Word("coil"), Word("tin"), Word("of"),
            Word("xyzzy"), Sp, Sp2, Hy, Digits("12")}
ShortTexts == {t \in UNION {[1..n -> Lexicon] : n \in 0..MaxLexemes} : IsText(t)}
\* descriptions of goods of the other chapters
CategoryDescriptions ==
    {<<Word("aluminium")>>, <<Word("cement"), Sp, Word("clinker")>>,
     <<Word("urea"), Sp, Word("fertilizer")>>, <<Word("hydrogen")>>}
WideDescriptions == ShortTexts \cup Descriptions \cup {DescIronSteelScrew} \cup CategoryDescriptions

(***************************************************************************)
(* ClassifierAgent: operations                                             *)
(***************************************************************************)
\* ComputeClassification of the texts of the model, evaluated once
ClassificationOf ==
    [d \in WideDescriptions \cup {CollapseSpace(Lower(x)) : x \in WideDescriptions} |->
        ComputeClassification(d)] @@ <<>>

ClassifyUncached(d) == ClassificationOf[d]

\* lines 457-461: the result cached (when the cache is on) and returned
StoreResult(c, key, result) ==
    [out |-> result, cache |-> IF use_cache THEN (key :> result) @@ c ELSE c]

\* lines 378-386: a cache hit returns the cached object
LookupOrCompute(c, key, d) ==
    IF use_cache /\ key \in DOMAIN c
    THEN [out |-> c[key], cache |-> c]
    ELSE StoreResult(c, key, ClassifyUncached(d))

\* one classify call on cache c: what it returns and the cache it leaves
CallClassify(c, d) == LookupOrCompute(c, _get_cache_key(d), d)

\* [await self.classify(desc) for desc in descriptions]
RECURSIVE BatchRun(_, _, _)
BatchStep(r, ds, outs) == BatchRun(r.cache, Tail(ds), Append(outs, r.out))
BatchRun(c, ds, outs) ==
    IF ds = <<>> THEN [out |-> outs, cache |-> c]
    ELSE BatchStep(CallClassify(c, Head(ds)), ds, outs)

ClsInit ==
    /\ cls_is_loaded = FALSE
    /\ use_cache \in BOOLEAN
    /\ cache = <<>>
    /\ cls_op = "init"
    /\ cls_in = <<>>
    /\ cls_out = <<>>

\* the classifier of the specifications about the other agents
ClsIdle == ClsInit /\ use_cache = TRUE /\ pending = <<>>

\* the value of one call as the list of its results
One(r) == [out |-> <<r.out>>, cache |-> r.cache]

Returned(r, op, ds) ==
    /\ cls_out' = r.out
    /\ cache' = r.cache
    /\ cls_in' = ds
    /\ cls_op' = op
    /\ UNCHANGED use_cache

load_model ==
    /\ cls_is_loaded' = TRUE
    /\ cls_op' = "load"
    /\ UNCHANGED <<use_cache, cache, cls_in, cls_out, pending>>

classify(d) ==
    /\ cls_is_loaded' = TRUE
    /\ Returned(One(CallClassify(cache, d)), "classify", <<d>>)

batch_classify(ds) ==
    /\ cls_is_loaded' = (cls_is_loaded \/ ds # <<>>)
    /\ Returned(BatchRun(cache, ds, <<>>), "batch", ds)

clear_cache ==
    /\ cache' = <<>>
    /\ cls_op' = "clear"
    /\ UNCHANGED <<cls_is_loaded, use_cache, cls_in, cls_out, pending>>

Classify == \E d \in Descriptions : classify(d) /\ UNCHANGED pending

BatchClassify == \E ds \in Batches : batch_classify(ds) /\ UNCHANGED pending

\* the lone classify call of the specification over WideDescriptions
ClassifyPending == pending # <<>> /\ classify(pending[1]) /\ pending' = <<>>

(***************************************************************************)
(* Concurrent classify calls on one agent                                  *)
(***************************************************************************)
MaxTasks == 3
TaskIds == 1..MaxTasks

\* a lookup that returns whatever entry the cache holds
Lookup_any_entry(c, key) ==
    IF use_cache /\ DOMAIN c # {} THEN Some(c[CHOOSE k \in DOMAIN c : TRUE]) ELSE None

\* lines 378-384: the cached result of the key, if there is one
Lookup(c, key) ==
    IF use_cache /\ key \in DOMAIN c THEN Some(c[key]) ELSE None

NewTask(d) == [desc |-> d, pc |-> "start", hit |-> FALSE, out |-> None]

TaskInit == tasks \in [TaskIds -> {NewTask(d) : d \in Descriptions}]

\* no call in progress
TaskIdle == tasks = <<>>

TaskFrame == UNCHANGED <<use_cache, cls_op, cls_in, cls_out, pending>>

\* lines 375-384 of call t: the model loaded, the cache looked up, and the
\* cached object returned on a hit
TaskLookup(t) ==
    /\ tasks[t].pc = "start"
    /\ cls_is_loaded' = TRUE
    /\ LET found == Lookup(cache, _get_cache_key(tasks[t].desc))
       IN  tasks' = [tasks EXCEPT ![t] =
               IF found # None
               THEN [@ EXCEPT !.pc = "done", !.hit = TRUE, !.out = found]
               ELSE [@ EXCEPT !.pc = "scoring"]]
    /\ UNCHANGED cache
    /\ TaskFrame

\* lines 386-461 of call t after a miss: the result built from the text,
\* stored under the key computed at the lookup, and returned
TaskStore(t) ==
    /\ tasks[t].pc = "scoring"
    /\ LET r == StoreResult(cache, _get_cache_key(tasks[t].desc), ClassifyUncached(tasks[t].desc))
       IN  /\ cache' = r.cache
           /\ tasks' = [tasks EXCEPT ![t] = [@ EXCEPT !.pc = "done", !.out = Some(r.out)]]
    /\ UNCHANGED cls_is_loaded
    /\ TaskFrame

(***************************************************************************)
(* _calculate_match_score on its own                                       *)
(***************************************************************************)
\* normalized_score as line 359-363 leaves it, before the adjustment
NormalizedBeforeAdjustment(codes, keywords, code) ==
    NormalizeScore(EXACT_MATCH_WEIGHT * Cardinality({kw \in DOMAIN codes : code \in Range(codes[kw])})
                     + CHAPTER_MATCH_WEIGHT * Cardinality({kw \in DOMAIN codes :
                           /\ code \notin Range(codes[kw])
                           /\ \E c \in Range(codes[kw]) : IsChapterEntry(c) /\ ChapterOf(code) = c}),
                   Cardinality(keywords), ScoreDen(keywords))

MaxKeywords == 3
ScoreWords == {"steel", "coil", "stainless", "aluminium", "xyzzy"}
KeywordSets == {ks \in SUBSET ScoreWords : Cardinality(ks) <= MaxKeywords}
ScoreCodes == {CN_CODE_DATABASE[i].code : i \in DOMAIN CN_CODE_DATABASE}

ScoreInit ==
    /\ score_keywords \in KeywordSets
    /\ score_code \in ScoreCodes
    /\ score_out = None

ScoreIdle ==
    /\ score_keywords = {}
    /\ score_code = FALLBACK_CODE
    /\ score_out = None

\* self._calculate_match_score(keywords, code); the scores are numbers of
\* 1/(1000 * den)
CalculateMatchScore ==
    /\ score_out = None
    /\ score_out' = Some([normalized |-> NormalizedBeforeAdjustment(
                                            KnownKeywords(SEMANTIC_KEYWORDS, score_keywords),
                                            score_keywords, score_code),
                          score |-> _calculate_match_score(score_keywords, score_code).score,
                          matched |-> Cardinality(_calculate_match_score(score_keywords, score_code).matched),
                          den |-> 1000 * ScoreDen(score_keywords)])
    /\ UNCHANGED <<score_keywords, score_code>>

(***************************************************************************)
(* SerializerAgent (serializer_agent.py)                                   *)
(*                                                                         *)
(* Emission values are exact integers in units of 10^-7 tCO2, one decimal  *)
(* finer than the 6 decimals of the XML, so that formatting rounds.  A     *)
(* formatted decimal is the integer number of 10^-precision units.  A      *)
(* string of characters (a CN code) is a sequence of one-character         *)
(* strings.  The XML document is the tree of its elements, as records.     *)
(***************************************************************************)
CN_CODE_WIDTH == 8
DEFAULT_PRECISION == 6
\* the decimals of a value of the model
ValueDecimals == DEFAULT_PRECISION + 1

RECURSIVE Pow10(_)
Pow10(n) == IF n = 0 THEN 1 ELSE 10 * Pow10(n - 1)

\* f"{value:.{precision}f}": the nearest multiple of 10^-precision (no value of
\* the model lies half-way between two)
RoundDiv(v, unit) == IF 2 * (v % unit) > unit THEN (v \div unit) + 1 ELSE v \div unit

_format_decimal(value, precision) == RoundDiv(value, Pow10(ValueDecimals - precision))

\* the characters f"{value:.{precision}f}" writes for a rounded value, a
\* number of 10^-precision
DecimalDigits == <<"0", "1", "2", "3", "4", "5", "6", "7", "8", "9">>
RECURSIVE NatText(_)
NatText(n) ==
    IF n < 10 THEN <<DecimalDigits[n + 1]>>
    ELSE NatText(n \div 10) \o <<DecimalDigits[(n % 10) + 1]>>
RECURSIVE FracText(_, _)
FracText(n, precision) ==
    IF precision = 0 THEN <<>>
    ELSE FracText(n \div 10, precision - 1) \o <<DecimalDigits[(n % 10) + 1]>>
UnsignedText(n, precision) ==
    NatText(n \div Pow10(precision)) \o <<".">> \o FracText(n % Pow10(precision), precision)
DecimalText(rounded, precision) ==
    IF rounded < 0 THEN <<"-">> \o UnsignedText(-rounded, precision)
    ELSE UnsignedText(rounded, precision)

\* str.ljust(width, fill)
Ljust(s, width, fill) == s \o [i \in 1..(width - Len(s)) |-> fill]

\* s[:n]
Prefix(s, n) == SubSeq(s, 1, Min(Len(s), n))

\* the code cut to 8 characters before its spaces and periods are removed
_format_cn_code_cut_first(code) ==
    Ljust(SelectSeq(Prefix(code, CN_CODE_WIDTH), LAMBDA ch : ch # " " /\ ch # "."),
          CN_CODE_WIDTH, "0")

\* code.replace(" ", "").replace(".", "")[:8].ljust(8, "0")
_format_cn_code(code) ==
    Ljust(Prefix(SelectSeq(SelectSeq(code, LAMBDA ch : ch # " "), LAMBDA ch : ch # "."),
                 CN_CODE_WIDTH),
          CN_CODE_WIDTH, "0")

\* (d or date.today()).isoformat()
_format_date(d, now) == IF d = None THEN now ELSE d[1]

\* an EmissionData that keeps the total its constructor was given
EmissionData_as_passed(direct, indirect, total) ==
    [direct_emissions_tco2 |-> direct,
     indirect_emissions_tco2 |-> indirect,
     total_emissions_tco2 |-> total]

\* EmissionData(direct, indirect, total): __post_init__ overwrites the total
EmissionData(direct, indirect, total) ==
    [direct_emissions_tco2 |-> direct,
     indirect_emissions_tco2 |-> indirect,
     total_emissions_tco2 |-> direct + indirect]

GoodsItem(item_number, cn_code, emissions, precursor_goods) ==
    [item_number |-> item_number, cn_code |-> cn_code, emissions |-> emissions,
     precursor_goods |-> precursor_goods]

\* sum(xs)
RECURSIVE Sum(_)
Sum(xs) == IF xs = <<>> THEN 0 ELSE Head(xs) + Sum(Tail(xs))

\* g.emissions.direct_emissions_tco2 for g in goods
DirectOf(goods) == [i \in DOMAIN goods |-> goods[i].emissions.direct_emissions_tco2]
IndirectOf(goods) == [i \in DOMAIN goods |-> goods[i].emissions.indirect_emissions_tco2]

\* the three assignments of CBAMReport.calculate_totals
WithTotals(r, direct, indirect) ==
    [r EXCEPT !.total_direct_emissions = direct,
              !.total_indirect_emissions = indirect,
              !.total_emissions = direct + indirect]

\* totals left as the caller stored them
calculate_totals_trusting(r) == r

\* totals added to the ones the report holds
calculate_totals_accumulating(r) ==
    WithTotals(r, r.total_direct_emissions + Sum(DirectOf(r.goods)),
               r.total_indirect_emissions + Sum(IndirectOf(r.goods)))

calculate_totals(r) == WithTotals(r, Sum(DirectOf(r.goods)), Sum(IndirectOf(r.goods)))

\* bool(x) of an Optional[str]
StrTruthy(x) == x # None /\ x[1] # ""

\* the Header: the elements appended after IsAmendment are None when left out
_build_header(r, now) ==
    [ReportId |-> r.report_id,
     SubmissionDate |-> _format_date(r.submission_date, now),
     IsAmendment |-> IF r.is_amendment THEN "true" ELSE "false",
     OriginalReportReference |->
         IF r.is_amendment /\ StrTruthy(r.original_report_id) THEN r.original_report_id
         ELSE None,
     AmendmentReason |->
         IF r.is_amendment /\ StrTruthy(r.original_report_id) /\ StrTruthy(r.amendment_reason)
         THEN r.amendment_reason
         ELSE None]

_build_emissions(emissions) ==
    [DirectEmissions |-> _format_decimal(emissions.direct_emissions_tco2, DEFAULT_PRECISION),
     IndirectEmissions |-> _format_decimal(emissions.indirect_emissions_tco2, DEFAULT_PRECISION),
     TotalEmissions |-> _format_decimal(emissions.total_emissions_tco2, DEFAULT_PRECISION)]

RECURSIVE _build_goods_item(_)
_build_goods_item(item) ==
    [ItemNumber |-> item.item_number,
     CNCommodityCode |-> _format_cn_code(item.cn_code),
     Emissions |-> _build_emissions(item.emissions),
     PrecursorGoods |-> [i \in DOMAIN item.precursor_goods |->
                            _build_goods_item(item.precursor_goods[i])]]

_build_goods_list(goods) == [i \in DOMAIN goods |-> _build_goods_item(goods[i])]

_build_summary(r) ==
    [TotalGoodsItems |-> Len(r.goods),
     TotalDirectEmissions |-> _format_decimal(r.total_direct_emissions, DEFAULT_PRECISION),
     TotalIndirectEmissions |-> _format_decimal(r.total_indirect_emissions, DEFAULT_PRECISION),
     TotalEmissions |-> _format_decimal(r.total_emissions, DEFAULT_PRECISION)]

\* the tree generate_xml serialises, from the report with its totals refreshed:
\* the elements that hold the report id, the date, the goods' codes and
\* emissions and the summary (the other elements copy fields of the report
\* that no operation of the model changes)
BuildXml(r, now) ==
    [Header |-> _build_header(r, now),
     GoodsList |-> _build_goods_list(r.goods),
     Summary |-> _build_summary(r)]

(***************************************************************************)
(* SerializerAgent: state and operations                                   *)
(***************************************************************************)
MaxGoods == 2
MaxDay == 2

\* emission values the caller supplies, in 10^-7 tCO2: 0.0000006 is written 0.000001
EmissionValues == {0, 6}
\* a total the caller stores on the report: 0.0000099
StoredTotals == {99}

\* "7208 51 91", "7318.15", "25232900"
CodeSpaced == <<"7", "2", "0", "8", " ", "5", "1", " ", "9", "1">>
CodeShort == <<"7", "3", "1", "8", ".", "1", "5">>
CodePlain == <<"2", "5", "2", "3", "2", "9", "0", "0">>
CodeFor(n) == IF n = 1 THEN CodeSpaced ELSE IF n = 2 THEN CodeShort ELSE CodePlain

\* the precursor of a complex good: direct 0.0000006, indirect 0
PrecursorItem == GoodsItem(1, CodePlain, EmissionData(6, 0, 0), <<>>)

NewReport(submission_date) ==
    [report_id |-> "CBAM-Q1-2024-SAMPLE001",
     submission_date |-> submission_date,
     goods |-> <<>>,
     is_amendment |-> FALSE,
     original_report_id |-> None,
     amendment_reason |-> None,
     total_direct_emissions |-> 0,
     total_indirect_emissions |-> 0,
     total_emissions |-> 0]

TotalsOf(r) ==
    [total_direct_emissions |-> r.total_direct_emissions,
     total_indirect_emissions |-> r.total_indirect_emissions,
     total_emissions |-> r.total_emissions]

SerInit ==
    /\ report \in {NewReport(d) : d \in {None, Some(1)}}
    /\ xml_out = None
    /\ ser_calls = 0
    /\ totals_in = None

\* the serializer of the specifications about the other agents
SerIdle == SerInit /\ report = NewReport(None)

\* the caller changed the report: the earlier output is no longer of this report
CallerChange(r) ==
    /\ report' = r
    /\ xml_out' = None
    /\ ser_calls' = 0
    /\ totals_in' = None

\* the first good may be a complex good with a precursor
\* report.goods.append(GoodsItem(..., emissions=EmissionData(direct, indirect, total)))
AddGoods ==
    /\ Len(report.goods) < MaxGoods
    /\ \E direct \in EmissionValues, indirect \in EmissionValues, total \in EmissionValues,
          pre \in (IF report.goods = <<>> THEN {<<>>, <<PrecursorItem>>} ELSE {<<>>}) :
          CallerChange([report EXCEPT !.goods =
              Append(@, GoodsItem(Len(@) + 1, CodeFor(Len(@) + 1),
                                  EmissionData(direct, indirect, total), pre))])

\* item.emissions.direct_emissions_tco2 = v, after construction
SetDirect ==
    \E k \in DOMAIN report.goods, v \in EmissionValues :
        /\ report.goods[k].emissions.direct_emissions_tco2 # v
        /\ CallerChange([report EXCEPT !.goods[k].emissions.direct_emissions_tco2 = v])

SetIndirect ==
    \E k \in DOMAIN report.goods, v \in EmissionValues :
        /\ report.goods[k].emissions.indirect_emissions_tco2 # v
        /\ CallerChange([report EXCEPT !.goods[k].emissions.indirect_emissions_tco2 = v])

SetNodeTotal ==
    \E k \in DOMAIN report.goods, v \in EmissionValues :
        /\ report.goods[k].emissions.total_emissions_tco2 # v
        /\ CallerChange([report EXCEPT !.goods[k].emissions.total_emissions_tco2 = v])

\* report.total_direct_emissions = report.total_indirect_emissions =
\* report.total_emissions = v, stored by the caller
SetReportTotals ==
    \E v \in StoredTotals :
        /\ report.total_emissions # v
        /\ CallerChange([report EXCEPT !.total_direct_emissions = v,
                                       !.total_indirect_emissions = v,
                                       !.total_emissions = v])

\* generate_xml on day now: the totals refreshed on the report, then the tree built
Generated(r, now) ==
    /\ report' = r
    /\ xml_out' = Some(BuildXml(r, now))
    /\ ser_calls' = IF ser_calls < 2 THEN ser_calls + 1 ELSE ser_calls
    /\ totals_in' = Some(TotalsOf(report))

generate_xml == \E now \in 1..MaxDay : Generated(calculate_totals(report), now)

(***************************************************************************)
(* Reports with the amendment fields set and the sample emissions          *)
(***************************************************************************)
\* 85.5 and 12.3 tCO2
SAMPLE_DIRECT == 855000000
SAMPLE_INDIRECT == 123000000
\* the totals a caller passes to the constructor with them: none (0.0), the
\* sum and another value
PassedTotals == {0, 978000000, 6}
OriginalReportIds == {None, Some("CBAM-Q4-2023-SAMPLE001")}
AmendmentReasons == {None, Some("Corrected emission factor")}

AmendmentReports ==
    {[NewReport(d) EXCEPT !.is_amendment = a, !.original_report_id = o, !.amendment_reason = x] :
        d \in {None, Some(1)}, a \in BOOLEAN, o \in OriginalReportIds, x \in AmendmentReasons}

AmendInit ==
    /\ report \in AmendmentReports
    /\ xml_out = None
    /\ ser_calls = 0
    /\ totals_in = None

\* report.goods.append(GoodsItem(..., emissions=EmissionData(85.5, 12.3, total)))
AddSampleGoods ==
    /\ Len(report.goods) < MaxGoods
    /\ \E total \in PassedTotals :
          CallerChange([report EXCEPT !.goods =
              Append(@, GoodsItem(Len(@) + 1, CodeFor(Len(@) + 1),
                                  EmissionData(SAMPLE_DIRECT, SAMPLE_INDIRECT, total), <<>>))])

(***************************************************************************)
(* ExtractorAgent (extractor_agent.py), regex backend                      *)
(*                                                                         *)
(* A document text is a sequence of lexemes [k, w, up, d]: "word" (w the   *)
(* letters in lower case), "num" (d the characters of a maximal run of     *)
(* digits, commas and periods that starts with a digit), "space", "punct"  *)
(* (w the character).  The words of the model are whole alternatives of    *)
(* the patterns, so a pattern element matches a whole lexeme; re.findall   *)
(* with IGNORECASE is the list of the starts at which the pattern matches. *)
(* Quantities are exact integers in thousandths of their unit.  A file     *)
(* name is a sequence of characters.                                       *)
(***************************************************************************)
DWord(w)  == [k |-> "word",  w |-> w,   up |-> FALSE, d |-> <<>>]
DWordU(w) == [k |-> "word",  w |-> w,   up |-> TRUE,  d |-> <<>>]
DNum(d)   == [k |-> "num",   w |-> "",  up |-> FALSE, d |-> d]
DPunct(w) == [k |-> "punct", w |-> w,   up |-> FALSE, d |-> <<>>]
DSp       == [k |-> "space", w |-> " ", up |-> FALSE, d |-> <<>>]

\* pattern elements; \s* stands between any two elements of every pattern
Lit(words)    == [kind |-> "word", words |-> words, opt |-> FALSE, cap |-> FALSE]
OptLit(words) == [kind |-> "word", words |-> words, opt |-> TRUE,  cap |-> FALSE]
CapLit(words) == [kind |-> "word", words |-> words, opt |-> FALSE, cap |-> TRUE]
OptSep        == [kind |-> "sep",  words |-> {":", "-"}, opt |-> TRUE, cap |-> FALSE]
CapNum        == [kind |-> "num",  words |-> {}, opt |-> FALSE, cap |-> TRUE]

EnergyWords == {"electricity", "power", "energy"}
UsageWords == {"consume", "consumed", "consumption", "usage"}

\* ExtractionPatterns.ELECTRICITY
ELECTRICITY ==
    << <<Lit(EnergyWords), OptLit(UsageWords), OptSep, CapNum,
         CapLit({"kw", "kwh", "mw", "mwh", "gw", "gwh"})>>,
       <<CapNum, CapLit({"kw", "kwh", "mw", "mwh", "gw", "gwh"}), Lit(UsageWords)>>,
       <<Lit({"total"}), Lit({"unit", "units", "consumption"}), OptSep, CapNum,
         CapLit({"kw", "kwh", "mw", "mwh"})>>,
       <<Lit({"unit", "units"}), Lit({"consume", "consumed"}), OptSep, CapNum>> >>

\* ExtractionPatterns.WEIGHT
WEIGHT ==
    << <<Lit({"gross", "net", "total"}), Lit({"weight"}), OptSep, CapNum,
         CapLit({"kg", "tonne", "tonnes", "ton", "tons", "mt", "lb", "lbs"})>>,
       <<Lit({"weight", "qty", "quantity"}), OptSep, CapNum,
         CapLit({"kg", "tonne", "tonnes", "ton", "tons", "mt"})>>,
       <<CapNum, CapLit({"kg", "tonne", "tonnes", "ton", "tons", "mt"}),
         OptLit({"gross", "net"})>> >>

\* elements of the date patterns: (\d{1,2}) behind \s* and behind a separator,
\* [\/\-\.], (\d{2,4}), (?:to|through|-)
CapDay      == [kind |-> "day",     words |-> {}, opt |-> FALSE, cap |-> TRUE]
CapNextDay  == [kind |-> "nextday", words |-> {}, opt |-> FALSE, cap |-> TRUE]
DateSep     == [kind |-> "datesep", words |-> {"/", "-"}, opt |-> FALSE, cap |-> FALSE]
CapYear     == [kind |-> "year",    words |-> {}, opt |-> FALSE, cap |-> TRUE]
DateLink    == [kind |-> "link",    words |-> {"to", "through", "-"}, opt |-> FALSE, cap |-> FALSE]

\* ExtractionPatterns.DATE.  A period between digits makes one number lexeme,
\* so the dates of the model are written with "/" or "-"; the third pattern
\* has one group, its matches are strings, and _extract_with_regex reads a
\* first match only when it is a tuple: it is left out.
DATE ==
    << <<Lit({"period", "billing", "from", "date"}), OptSep, CapDay, DateSep, CapNextDay,
         DateSep, CapYear>>,
       <<CapDay, DateSep, CapNextDay, DateSep, CapYear, DateLink,
         CapDay, DateSep, CapNextDay, DateSep, CapYear>> >>

\* the elements no \s* stands in front of
Tight(elem) == elem.kind \in {"nextday", "datesep", "year"}

AllDigits(d) == \A i \in DOMAIN d : d[i] \in {"0", "1", "2", "3", "4", "5", "6", "7", "8", "9"}

Fits(elem, lex) ==
    \/ elem.kind = "num" /\ lex.k = "num"
    \/ elem.kind = "word" /\ lex.k = "word" /\ lex.w \in elem.words
    \/ elem.kind = "sep" /\ lex.k = "punct" /\ lex.w \in elem.words
    \/ elem.kind \in {"day", "nextday"} /\ lex.k = "num" /\ AllDigits(lex.d) /\ Len(lex.d) \in 1..2
    \/ elem.kind = "year" /\ lex.k = "num" /\ AllDigits(lex.d) /\ Len(lex.d) \in 2..4
    \/ elem.kind = "datesep" /\ lex.k = "punct" /\ lex.w \in elem.words
    \/ elem.kind = "link" /\ lex.k \in {"word", "punct"} /\ lex.w \in elem.words

\* \s*: the position behind the white space at i, if any
SkipSpace(text, i) == IF i <= Len(text) /\ text[i].k = "space" THEN i + 1 ELSE i

\* the match of pattern elements j.. at position i: its groups and its end, or None
RECURSIVE MatchFrom(_, _, _, _, _)
MatchAt(text, i, pat, j, groups) ==
    IF i <= Len(text) /\ Fits(pat[j], text[i])
    THEN MatchFrom(text, i + 1, pat, j + 1,
                   IF pat[j].cap THEN Append(groups, text[i]) ELSE groups)
    ELSE IF pat[j].opt THEN MatchFrom(text, i, pat, j + 1, groups)
    ELSE None
MatchFrom(text, i, pat, j, groups) ==
    IF j > Len(pat) THEN Some([groups |-> groups, end |-> i])
    ELSE MatchAt(text, IF j > 1 /\ ~Tight(pat[j]) THEN SkipSpace(text, i) ELSE i, pat, j, groups)

NumGroups(pat) == Len(SelectSeq(pat, LAMBDA e : e.cap))

\* re.findall(pattern, text, re.IGNORECASE | re.MULTILINE): the non-overlapping
\* matches from left to right; an entry is the tuple of the groups when the
\* pattern has several groups, the group itself (a str) otherwise
RECURSIVE FindAll(_, _, _)
FindNext(text, pat, i, m) ==
    IF m = None THEN FindAll(text, pat, i + 1)
    ELSE <<[is_tuple |-> NumGroups(pat) >= 2, groups |-> m[1].groups]>>
         \o FindAll(text, pat, m[1].end)
FindAll(text, pat, i) ==
    IF i > Len(text) THEN <<>>
    ELSE FindNext(text, pat, i, MatchFrom(text, i, pat, 1, <<>>))

\* _apply_pattern: the matches of all the patterns, in the order of the patterns
RECURSIVE _apply_pattern(_, _)
_apply_pattern(text, patterns) ==
    IF patterns = <<>> THEN <<>>
    ELSE FindAll(text, Head(patterns), 1) \o _apply_pattern(text, Tail(patterns))

DigitValue ==
    ("0" :> 0) @@ ("1" :> 1) @@ ("2" :> 2) @@ ("3" :> 3) @@ ("4" :> 4) @@
    ("5" :> 5) @@ ("6" :> 6) @@ ("7" :> 7) @@ ("8" :> 8) @@ ("9" :> 9)

RECURSIVE ToInt(_)
ToInt(digits) ==
    IF digits = <<>> THEN 0
    ELSE 10 * ToInt(SubSeq(digits, 1, Len(digits) - 1)) + DigitValue[digits[Len(digits)]]

\* the place of the first period of s, Len(s) + 1 when it has none
DotPos(s) ==
    IF \E i \in DOMAIN s : s[i] = "."
    THEN CHOOSE i \in DOMAIN s : s[i] = "." /\ \A j \in 1..(i - 1) : s[j] # "."
    ELSE Len(s) + 1

\* float(cleaned), in thousandths; ValueError (None) on a second period
FloatOf(cleaned, dot) ==
    IF \E i \in DOMAIN cleaned : i > dot /\ cleaned[i] = "." THEN None
    ELSE Some(1000 * ToInt(SubSeq(cleaned, 1, dot - 1))
              + ToInt(Ljust(SubSeq(cleaned, dot + 1, Min(Len(cleaned), dot + 3)), 3, "0")))

Cleaned(text) == SelectSeq(text, LAMBDA ch : ch # "," /\ ch # " ")

_parse_number(text) ==
    IF text = <<>> THEN None ELSE FloatOf(Cleaned(text), DotPos(Cleaned(text)))

\* date(y, m, d) raises ValueError outside these
IsLeap(y) == (y % 4 = 0 /\ y % 100 # 0) \/ y % 400 = 0
DaysIn(y, m) ==
    IF m = 2 THEN (IF IsLeap(y) THEN 29 ELSE 28)
    ELSE IF m \in {4, 6, 9, 11} THEN 30 ELSE 31
ValidDate(y, m, d) == y \in 1..9999 /\ m \in 1..12 /\ d \in 1..DaysIn(y, m)

\* years below 100 are of this century
CENTURY == 2000
FullYear(y) == IF y < 100 THEN y + CENTURY ELSE y

\* _parse_date(day, month, year): the date, or None on ValueError
_parse_date(day, month, year) ==
    IF ValidDate(FullYear(ToInt(year)), ToInt(month), ToInt(day))
    THEN Some([year |-> FullYear(ToInt(year)), month |-> ToInt(month), day |-> ToInt(day)])
    ELSE None

\* multipliers as fractions
Frac(n, d) == [n |-> n, d |-> d]

\* UnitConverter.ENERGY_TO_KWH
ENERGY_TO_KWH ==
    ("kwh" :> Frac(1, 1)) @@ ("kw/h" :> Frac(1, 1)) @@ ("kw-h" :> Frac(1, 1)) @@
    ("mwh" :> Frac(1000, 1)) @@ ("mw/h" :> Frac(1000, 1)) @@ ("mw-h" :> Frac(1000, 1)) @@
    ("gwh" :> Frac(1000000, 1)) @@ ("gw/h" :> Frac(1000000, 1)) @@
    ("wh" :> Frac(1, 1000)) @@
    ("j" :> Frac(1, 3600000)) @@ ("joule" :> Frac(1, 3600000)) @@
    ("kj" :> Frac(1, 3600)) @@ ("kilojoule" :> Frac(1, 3600)) @@
    ("mj" :> Frac(10, 36)) @@ ("megajoule" :> Frac(10, 36)) @@
    ("gj" :> Frac(10000, 36)) @@ ("gigajoule" :> Frac(10000, 36)) @@
    ("btu" :> Frac(293071, 1000000000)) @@
    ("therm" :> Frac(293071, 10000))

\* UnitConverter.WEIGHT_TO_KG
WEIGHT_TO_KG ==
    ("kg" :> Frac(1, 1)) @@ ("kgs" :> Frac(1, 1)) @@
    ("kilogram" :> Frac(1, 1)) @@ ("kilograms" :> Frac(1, 1)) @@
    ("g" :> Frac(1, 1000)) @@ ("gram" :> Frac(1, 1000)) @@ ("grams" :> Frac(1, 1000)) @@
    ("mg" :> Frac(1, 1000000)) @@
    ("t" :> Frac(1000, 1)) @@ ("tonne" :> Frac(1000, 1)) @@ ("tonnes" :> Frac(1000, 1)) @@
    ("ton" :> Frac(1000, 1)) @@ ("tons" :> Frac(1000, 1)) @@
    ("mt" :> Frac(1000, 1)) @@ ("metric ton" :> Frac(1000, 1)) @@
    ("metric tons" :> Frac(1000, 1)) @@
    ("lb" :> Frac(453592, 1000000)) @@ ("lbs" :> Frac(453592, 1000000)) @@
    ("pound" :> Frac(453592, 1000000)) @@ ("pounds" :> Frac(453592, 1000000)) @@
    ("oz" :> Frac(283495, 10000000)) @@ ("ounce" :> Frac(283495, 10000000)) @@
    ("cwt" :> Frac(508023, 10000))

\* value * table.get(unit.lower().strip(), 1.0)
Convert(table, value, unit) ==
    IF unit \in DOMAIN table THEN (value * table[unit].n) \div table[unit].d ELSE value

to_kwh(value, unit) == Convert(ENERGY_TO_KWH, value, unit.w)
to_mwh(kwh_value) == kwh_value \div 1000
to_kg(value, unit) == Convert(WEIGHT_TO_KG, value, unit.w)

\* str.lower() on the letters a file name of the model can hold
LowerCase == ("B" :> "b") @@ ("I" :> "i") @@ ("L" :> "l") @@ ("M" :> "m")
LowerChars(s) == [i \in DOMAIN s |-> IF s[i] \in DOMAIN LowerCase THEN LowerCase[s[i]] ELSE s[i]]

\* sub in s
Contains(s, sub) ==
    \E i \in 0..(Len(s) - Len(sub)) : \A j \in DOMAIN sub : s[i + j] = sub[j]

\* the document type with the certificate words tested first
DocumentType_mill_first(filename_lower) ==
    IF \/ Contains(filename_lower, <<"m","i","l","l">>)
       \/ Contains(filename_lower, <<"c","e","r","t","i","f","i","c","a","t","e">>)
       \/ Contains(filename_lower, <<"t","e","s","t">>)
    THEN Some("mill_test_certificate")
    ELSE IF \/ Contains(filename_lower, <<"e","l","e","c","t","r","i","c","i","t","y">>)
            \/ Contains(filename_lower, <<"b","i","l","l">>)
            \/ Contains(filename_lower, <<"p","o","w","e","r">>)
    THEN Some("electricity_bill")
    ELSE IF Contains(filename_lower, <<"i","n","v","o","i","c","e">>)
    THEN Some("commercial_invoice")
    ELSE None

DocumentType(filename_lower) ==
    IF \/ Contains(filename_lower, <<"e","l","e","c","t","r","i","c","i","t","y">>)
       \/ Contains(filename_lower, <<"b","i","l","l">>)
       \/ Contains(filename_lower, <<"p","o","w","e","r">>)
    THEN Some("electricity_bill")
    ELSE IF \/ Contains(filename_lower, <<"m","i","l","l">>)
            \/ Contains(filename_lower, <<"c","e","r","t","i","f","i","c","a","t","e">>)
            \/ Contains(filename_lower, <<"t","e","s","t">>)
    THEN Some("mill_test_certificate")
    ELSE IF Contains(filename_lower, <<"i","n","v","o","i","c","e">>)
    THEN Some("commercial_invoice")
    ELSE None

\* the loop body's test: a tuple of two groups or more whose number parses to
\* a truthy value
Usable(match) ==
    /\ match.is_tuple
    /\ Len(match.groups) >= 2
    /\ _parse_number(match.groups[1].d) # None
    /\ _parse_number(match.groups[1].d)[1] # 0

\* the match at which the loop over the matches breaks, if any
FirstUsable(matches) ==
    IF \E i \in DOMAIN matches : Usable(matches[i])
    THEN Some(matches[CHOOSE i \in DOMAIN matches :
                 Usable(matches[i]) /\ \A j \in 1..(i - 1) : ~Usable(matches[j])])
    ELSE None

ValueOf(match) == _parse_number(match.groups[1].d)[1]

ELECTRICITY_CONFIDENCE == 85
WEIGHT_CONFIDENCE == 88

DATE_CONFIDENCE == 80

\* the first match of the date patterns when it is a tuple, else None
FirstTuple(matches) ==
    IF matches # <<>> /\ matches[1].is_tuple THEN Some(matches[1].groups) ELSE None

\* lines 385-390: the start of the first three groups, the end of the next three
PeriodStart(dates) ==
    IF dates # None /\ Len(dates[1]) >= 3
    THEN _parse_date(dates[1][1].d, dates[1][2].d, dates[1][3].d) ELSE None
PeriodEnd(dates) ==
    IF dates # None /\ Len(dates[1]) >= 6
    THEN _parse_date(dates[1][4].d, dates[1][5].d, dates[1][6].d) ELSE None

ConfidenceScores(elec, weight, dates) ==
    [f \in (IF elec = None THEN {} ELSE {"electricity_consumption_kwh"})
           \cup (IF weight = None THEN {} ELSE {"gross_weight_kg"})
           \cup (IF dates # None /\ Len(dates[1]) >= 3 THEN {"reporting_period_start"} ELSE {})
           \cup (IF dates # None /\ Len(dates[1]) >= 6 THEN {"reporting_period_end"} ELSE {})
       |-> IF f = "gross_weight_kg" THEN WEIGHT_CONFIDENCE
           ELSE IF f = "electricity_consumption_kwh" THEN ELECTRICITY_CONFIDENCE
           ELSE DATE_CONFIDENCE]

RawExtractions(elec, weight) ==
    [f \in (IF elec = None THEN {} ELSE {"electricity"})
           \cup (IF weight = None THEN {} ELSE {"weight"})
       |-> IF f = "weight" THEN weight[1].groups ELSE elec[1].groups]

ExtractionWarnings(document_type, elec, weight) ==
    (IF document_type = Some("electricity_bill") /\ elec = None
     THEN <<"Could not extract electricity consumption from bill">> ELSE <<>>)
    \o (IF document_type = Some("mill_test_certificate") /\ weight = None
        THEN <<"Could not extract weight from certificate">> ELSE <<>>)

\* ExtractedActivityData: the document type, the electricity, the weight and
\* the period families, the scores, the raw extractions and the warnings.  No
\* text of the model holds a word of the country, producer or installation
\* patterns, so the regex backend leaves those fields unset.
ExtractedActivityData(document_type, elec, weight, dates) ==
    [document_type |-> document_type,
     electricity_consumption_kwh |->
         IF elec = None THEN None ELSE Some(to_kwh(ValueOf(elec[1]), elec[1].groups[2])),
     electricity_consumption_mwh |->
         IF elec = None THEN None
         ELSE Some(to_mwh(to_kwh(ValueOf(elec[1]), elec[1].groups[2]))),
     gross_weight_kg |->
         IF weight = None THEN None ELSE Some(to_kg(ValueOf(weight[1]), weight[1].groups[2])),
     net_weight_kg |-> None,
     reporting_period_start |-> PeriodStart(dates),
     reporting_period_end |-> PeriodEnd(dates),
     country_of_origin |-> None,
     producer_name |-> None,
     installation_id |-> None,
     confidence_scores |-> ConfidenceScores(elec, weight, dates),
     raw_extractions |-> RawExtractions(elec, weight),
     extraction_warnings |-> ExtractionWarnings(document_type, elec, weight),
     extraction_method |-> "regex"]

_extract_with_regex(text, filename) ==
    ExtractedActivityData(DocumentType(LowerChars(filename)),
                          FirstUsable(_apply_pattern(text, ELECTRICITY)),
                          FirstUsable(_apply_pattern(text, WEIGHT)),
                          FirstTuple(_apply_pattern(text, DATE)))

\* _extract_mock: the sample data by the words of the file name
MockIsElectricity(filename_lower) ==
    \/ Contains(filename_lower, <<"e","l","e","c","t","r","i","c","i","t","y">>)
    \/ Contains(filename_lower, <<"b","i","l","l">>)
MockIsMillCert(filename_lower) ==
    \/ Contains(filename_lower, <<"m","i","l","l">>)
    \/ Contains(filename_lower, <<"c","e","r","t","i","f","i","c","a","t","e">>)

MOCK_KWH == 125000000
MOCK_MWH == 125000
MOCK_GROSS_KG == 45000000
MOCK_NET_KG == 44800000
MOCK_CONFIDENCE == 95
MOCK_COUNTRY_CONFIDENCE == 98
MOCK_PRODUCER_CONFIDENCE == 92
MOCK_INSTALLATION_CONFIDENCE == 88

MockData(is_electricity, is_mill_cert) ==
    [document_type |-> IF is_mill_cert THEN Some("mill_test_certificate")
                       ELSE IF is_electricity THEN Some("electricity_bill") ELSE None,
     electricity_consumption_kwh |-> IF is_electricity THEN Some(MOCK_KWH) ELSE None,
     electricity_consumption_mwh |-> IF is_electricity THEN Some(MOCK_MWH) ELSE None,
     gross_weight_kg |-> IF is_mill_cert THEN Some(MOCK_GROSS_KG) ELSE None,
     net_weight_kg |-> IF is_mill_cert THEN Some(MOCK_NET_KG) ELSE None,
     reporting_period_start |-> Some([year |-> 2024, month |-> 1, day |-> 1]),
     reporting_period_end |-> Some([year |-> 2024, month |-> 3, day |-> 31]),
     country_of_origin |-> IF is_mill_cert THEN Some("IN") ELSE None,
     producer_name |-> IF is_mill_cert THEN Some("Tata Steel Limited") ELSE None,
     installation_id |-> IF is_mill_cert THEN Some("IN-TSL-JSR-001") ELSE None,
     confidence_scores |->
         [f \in (IF is_electricity THEN {"electricity_consumption_kwh"} ELSE {})
                \cup (IF is_mill_cert
                      THEN {"gross_weight_kg", "country_of_origin", "producer_name", "installation_id"}
                      ELSE {})
            |-> IF f = "country_of_origin" THEN MOCK_COUNTRY_CONFIDENCE
                ELSE IF f = "producer_name" THEN MOCK_PRODUCER_CONFIDENCE
                ELSE IF f = "installation_id" THEN MOCK_INSTALLATION_CONFIDENCE
                ELSE MOCK_CONFIDENCE],
     raw_extractions |->
         [f \in (IF is_electricity THEN {"electricity"} ELSE {}) |-> "125 MWh"],
     extraction_warnings |-> <<>>,
     extraction_method |-> "mock"]

_extract_mock(filename) ==
    MockData(MockIsElectricity(LowerChars(filename)), MockIsMillCert(LowerChars(filename)))

(***************************************************************************)
(* The unit groups of the patterns and their conversion                    *)
(***************************************************************************)
\* the words the last capturing group of a pattern can hold
UnitWordsOf(pat) ==
    UNION {pat[j].words : j \in {i \in DOMAIN pat : pat[i].cap /\ pat[i].kind = "word"}}
CapturedUnits(patterns) == UNION {UnitWordsOf(patterns[p]) : p \in DOMAIN patterns}

\* re.IGNORECASE: the token as written in lower or in upper case
UnitTokens(patterns) ==
    {DWord(w) : w \in CapturedUnits(patterns)} \cup {DWordU(w) : w \in CapturedUnits(patterns)}

UnitValues == {1, 2, 1500}

UnitInit ==
    /\ \/ unit_family = "energy" /\ unit_token \in UnitTokens(ELECTRICITY)
       \/ unit_family = "weight" /\ unit_token \in UnitTokens(WEIGHT)
    /\ unit_value \in UnitValues
    /\ unit_out = None

UnitIdle ==
    /\ unit_family = "energy"
    /\ unit_token = DWord("kwh")
    /\ unit_value = 1
    /\ unit_out = None

\* UnitConverter.to_kwh(value, unit) of line 346, to_kg(value, unit) of line 359
ConvertUnit ==
    /\ unit_out = None
    /\ unit_out' = Some(IF unit_family = "energy" THEN to_kwh(unit_value, unit_token)
                        ELSE to_kg(unit_value, unit_token))
    /\ UNCHANGED <<unit_family, unit_token, unit_value>>

(***************************************************************************)
(* ExtractorAgent: state and operations                                    *)
(***************************************************************************)
\* "electricity_bill_oct.pdf", "Bill.pdf", "mill_cert.pdf", "invoice.pdf", "scan.pdf"
FileElectricityBill == <<"e","l","e","c","t","r","i","c","i","t","y","_","b","i","l","l",
                         "_","o","c","t",".","p","d","f">>
FileBillUpper == <<"B","I","L","L",".","p","d","f">>
FileMillCert == <<"m","i","l","l","_","c","e","r","t",".","p","d","f">>
FileInvoice == <<"i","n","v","o","i","c","e",".","p","d","f">>
FileScan == <<"s","c","a","n",".","p","d","f">>
FilePowerTest == <<"p","o","w","e","r","_","t","e","s","t",".","p","d","f">>
FileTestInvoice == <<"t","e","s","t","_","i","n","v","o","i","c","e",".","p","d","f">>
Filenames == {FileElectricityBill, FileBillUpper, FileMillCert, FileInvoice, FileScan,
              FilePowerTest, FileTestInvoice}

Num125000 == DNum(<<"1","2","5",",","0","0","0">>)
Num450 == DNum(<<"4","5","0">>)
Num0 == DNum(<<"0">>)
Num5 == DNum(<<"5">>)
Num7 == DNum(<<"7">>)
Num123 == DNum(<<"1",".","2",".","3">>)
Num2p5 == DNum(<<"2",".","5">>)
Colon == DPunct(":")

\* "Total units consumed: 125,000 kWh"
TextTotalUnitsConsumed ==
    <<DWordU("total"), DSp, DWord("units"), DSp, DWord("consumed"), Colon, DSp,
      Num125000, DSp, DWordU("kwh")>>
\* "Units consumed: 450"
TextUnitsConsumed == <<DWordU("units"), DSp, DWord("consumed"), Colon, DSp, Num450>>
\* "Electricity consumption: 0 kWh 5 mwh usage"
TextZeroFirst ==
    <<DWordU("electricity"), DSp, DWord("consumption"), Colon, DSp, Num0, DSp,
      DWordU("kwh"), DSp, Num5, DSp, DWord("mwh"), DSp, DWord("usage")>>
\* "power 1.2.3 kwh total units 7 kwh"
TextUnparsedFirst ==
    <<DWord("power"), DSp, Num123, DSp, DWord("kwh"), DSp, DWord("total"), DSp,
      DWord("units"), DSp, Num7, DSp, DWord("kwh")>>
\* "Total consumption: 125,000 kWh"
TextTotalConsumption ==
    <<DWordU("total"), DSp, DWord("consumption"), Colon, DSp, Num125000, DSp,
      DWordU("kwh")>>
\* "Net weight: 2.5 tonnes"
TextNetWeight ==
    <<DWordU("net"), DSp, DWord("weight"), Colon, DSp, Num2p5, DSp, DWord("tonnes")>>
\* "5 mwh usage 7 kwh usage": two occurrences of one pattern
TextTwoOccurrences ==
    <<Num5, DSp, DWord("mwh"), DSp, DWord("usage"), DSp, Num7, DSp, DWord("kwh"), DSp,
      DWord("usage")>>
Slash == DPunct("/")
Num31 == DNum(<<"3","1">>)
Num15 == DNum(<<"1","5">>)
Num02 == DNum(<<"0","2">>)
Num03 == DNum(<<"0","3">>)
Num01 == DNum(<<"0","1">>)
Num24 == DNum(<<"2","4">>)
Num2024 == DNum(<<"2","0","2","4">>)
\* "power 1.2.3 kwh": the only number of the text does not parse
TextUnparsedOnly == <<DWord("power"), DSp, Num123, DSp, DWord("kwh")>>
\* "Gross weight: 1.2.3 kg"
TextUnparsedWeight ==
    <<DWordU("gross"), DSp, DWord("weight"), Colon, DSp, Num123, DSp, DWord("kg")>>
\* "Power consumption: 5 MW"
TextMegawatt ==
    <<DWordU("power"), DSp, DWord("consumption"), Colon, DSp, Num5, DSp, DWordU("mw")>>
\* "Date: 31/02/2024": no such day
TextNoSuchDay == <<DWordU("date"), Colon, DSp, Num31, Slash, Num02, Slash, Num2024>>
\* "Date: 15/03/24"
TextShortYear == <<DWordU("date"), Colon, DSp, Num15, Slash, Num03, Slash, Num24>>
\* "01/01/2024 to 31/03/2024" and "01/01/2024 to 31/02/2024"
TextPeriod ==
    <<Num01, Slash, Num01, Slash, Num2024, DSp, DWord("to"), DSp,
      Num31, Slash, Num03, Slash, Num2024>>
TextPeriodNoSuchEnd ==
    <<Num01, Slash, Num01, Slash, Num2024, DSp, DWord("to"), DSp,
      Num31, Slash, Num02, Slash, Num2024>>
\* "date: 15 / 03 / 2024": no date, the pattern has no white space in a date
TextSpacedDate ==
    <<DWord("date"), Colon, DSp, Num15, DSp, Slash, DSp, Num03, DSp, Slash, DSp, Num2024>>
ScenarioTexts == {<<>>, TextTotalUnitsConsumed, TextUnitsConsumed, TextZeroFirst,
                  TextUnparsedFirst, TextTotalConsumption, TextNetWeight,
                  TextTwoOccurrences, TextUnparsedOnly, TextUnparsedWeight, TextMegawatt,
                  TextNoSuchDay, TextShortYear, TextPeriod, TextPeriodNoSuchEnd,
                  TextSpacedDate}

\* the texts of at most MaxDocLexemes lexemes over a lexicon
MaxDocLexemes == 3
ElectricityLexicon == {DWord("power"), DWord("total"), DWord("units"), DWord("consumed"),
                       DWord("usage"), DWordU("kwh"), DWord("mwh"), Colon, Num7, Num0}
WeightLexicon == {DWord("gross"), DWord("weight"), DWord("qty"), DWord("kg"),
                  DWord("tonnes"), DWord("lbs"), Colon, Num7, Num123, DSp}
TextsOver(lexicon) == {t \in UNION {[1..n -> lexicon] : n \in 1..MaxDocLexemes} : IsText(t)}
DocTexts == TextsOver(ElectricityLexicon) \cup TextsOver(WeightLexicon)

\* the constructor's arguments: a backend and an OpenAI key or none
BackendConfigs == {<<"regex", None>>, <<"layoutlm", None>>, <<"gpt4", None>>,
                   <<"gpt4", Some("sk-key")>>, <<"mock", None>>}

\* extract_from_pdf calls one extractor of the model serves
MaxExtractCalls == 2

ExtInit ==
    /\ ext_is_loaded = FALSE
    /\ \/ /\ ext_text \in ScenarioTexts
          /\ ext_filename \in Filenames
          /\ \E c \in BackendConfigs : ext_configured = c[1] /\ ext_api_key = c[2]
       \/ /\ ext_text \in DocTexts
          /\ ext_filename \in {FileElectricityBill, FileMillCert}
          /\ ext_configured = "regex"
          /\ ext_api_key = None
    /\ ext_backend = ext_configured
    /\ ext_out = None
    /\ ext_calls = 0

\* the extractor of the specifications about the other agents
ExtIdle ==
    /\ ext_is_loaded = FALSE
    /\ ext_text = <<>>
    /\ ext_filename = FileScan
    /\ ext_out = None
    /\ ext_configured = "regex"
    /\ ext_api_key = None
    /\ ext_backend = "regex"
    /\ ext_calls = 0

\* load_model that keeps the GPT4 backend without a key
BackendAfterLoad_keep(backend, api_key) == backend

\* self.backend once load_model has run
BackendAfterLoad(backend, api_key) ==
    IF backend = "gpt4" /\ api_key = None THEN "regex" ELSE backend

\* ExtractorAgent.load_model
ext_load_model ==
    /\ ~ext_is_loaded
    /\ ext_is_loaded' = TRUE
    /\ ext_backend' = BackendAfterLoad(ext_backend, ext_api_key)
    /\ UNCHANGED <<ext_text, ext_filename, ext_out, ext_api_key, ext_configured, ext_calls>>

_extract_with_gpt4(text, filename) == _extract_with_regex(text, filename)
_extract_with_layoutlm(text, filename) == _extract_with_regex(text, filename)

\* the dispatch of extract_from_pdf on self.backend
ExtractWith(backend, text, filename) ==
    IF backend = "gpt4" THEN _extract_with_gpt4(text, filename)
    ELSE IF backend = "layoutlm" THEN _extract_with_layoutlm(text, filename)
    ELSE IF backend = "regex" THEN _extract_with_regex(text, filename)
    ELSE _extract_mock(filename)

\* extract_from_pdf(pdf_bytes, filename) with the backend its load_model call left
Extracted(backend) ==
    /\ ext_is_loaded' = TRUE
    /\ ext_backend' = backend
    /\ ext_out' = Some(ExtractWith(backend, ext_text, ext_filename))
    /\ ext_calls' = ext_calls + 1
    /\ UNCHANGED <<ext_text, ext_filename, ext_api_key, ext_configured>>

extract_from_pdf ==
    /\ ext_calls < MaxExtractCalls
    /\ Extracted(IF ext_is_loaded THEN ext_backend
                 ELSE BackendAfterLoad(ext_backend, ext_api_key))

(***************************************************************************)
(* _format_cn_code on its own                                              *)
(***************************************************************************)
MaxCodeLen == 9
CodeChars == {"7", " ", "."}
\* "7208.51.91 00": more than 8 characters left
CodeLong == <<"7", "2", "0", "8", ".", "5", "1", ".", "9", "1", " ", "0", "0">>
Codes == UNION {[1..n -> CodeChars] : n \in 0..MaxCodeLen}
            \cup {CodeSpaced, CodeShort, CodePlain, CodeLong}

FmtInit ==
    /\ fmt_in \in Codes
    /\ fmt_out = None
    /\ fmt_again = None

FmtIdle ==
    /\ fmt_in = <<>>
    /\ fmt_out = None
    /\ fmt_again = None

\* out = self._format_cn_code(code)
FormatCode1 ==
    /\ fmt_out = None
    /\ fmt_out' = Some(_format_cn_code(fmt_in))
    /\ UNCHANGED <<fmt_in, fmt_again>>

\* self._format_cn_code(out)
FormatCode2 ==
    /\ fmt_out # None
    /\ fmt_again = None
    /\ fmt_again' = Some(_format_cn_code(fmt_out[1]))
    /\ UNCHANGED <<fmt_in, fmt_out>>

(***************************************************************************)
(* Python str methods on strings held as sequences of characters           *)
(***************************************************************************)
LowerLetters == <<"a","b","c","d","e","f","g","h","i","j","k","l","m",
                  "n","o","p","q","r","s","t","u","v","w","x","y","z">>
UpperLetters == <<"A","B","C","D","E","F","G","H","I","J","K","L","M",
                  "N","O","P","Q","R","S","T","U","V","W","X","Y","Z">>
DigitChars == {"0","1","2","3","4","5","6","7","8","9"}
WhiteChars == {" ", "\t", "\n"}

IndexIn(letters, c) == CHOOSE i \in DOMAIN letters : letters[i] = c
IsLowerChar(c) == c \in Range(LowerLetters)
IsUpperChar(c) == c \in Range(UpperLetters)
IsAlphaChar(c) == IsLowerChar(c) \/ IsUpperChar(c)

\* str.lower(), str.upper()
str_lower(s) == [i \in DOMAIN s |->
                    IF IsUpperChar(s[i]) THEN LowerLetters[IndexIn(UpperLetters, s[i])] ELSE s[i]]
str_upper(s) == [i \in DOMAIN s |->
                    IF IsLowerChar(s[i]) THEN UpperLetters[IndexIn(LowerLetters, s[i])] ELSE s[i]]

\* str.isalpha(), str.isalnum(), str.isdigit(): false on the empty string
str_isalpha(s) == s # <<>> /\ \A i \in DOMAIN s : IsAlphaChar(s[i])
str_isalnum(s) == s # <<>> /\ \A i \in DOMAIN s : IsAlphaChar(s[i]) \/ s[i] \in DigitChars
str_isdigit(s) == s # <<>> /\ \A i \in DOMAIN s : s[i] \in DigitChars

\* str.strip()
RECURSIVE str_lstrip(_)
str_lstrip(s) == IF s # <<>> /\ Head(s) \in WhiteChars THEN str_lstrip(Tail(s)) ELSE s
RECURSIVE str_rstrip(_)
str_rstrip(s) ==
    IF s # <<>> /\ s[Len(s)] \in WhiteChars THEN str_rstrip(SubSeq(s, 1, Len(s) - 1)) ELSE s
str_strip(s) == str_rstrip(str_lstrip(s))

\* s[:n]
str_prefix(s, n) == SubSeq(s, 1, Min(Len(s), n))
\* s.replace(c, "") for a character c
str_remove(s, c) == SelectSeq(s, LAMBDA x : x # c)
(***************************************************************************)
(* SerializerAgent: the XSD schema, validate_xml, generate_and_validate    *)
(*                                                                         *)
(* The coroutines hold no await that suspends (load_schema awaits nothing, *)
(* validate_xml awaits load_schema only), so the event loop runs each call *)
(* to its end before the next: a call is one action.                       *)
(***************************************************************************)
\* what self.schema_path holds: no file, an XSD lxml accepts, a file
\* etree.parse or etree.XMLSchema raises on
SchemaFiles == {"absent", "valid", "invalid"}

\* most entries schema.error_log holds for one document
MaxViolations == 2
\* bytes by what lxml makes of them: whether etree.fromstring parses them and
\* how many entries the schema's error log holds for the document
XmlBytes(wellformed, violations) == [wellformed |-> wellformed, violations |-> violations]
Malformed == XmlBytes(FALSE, 0)
XmlInputs == {Malformed} \cup {XmlBytes(TRUE, n) : n \in 0..MaxViolations}

ValidationResult(is_valid, errors, warnings) ==
    [is_valid |-> is_valid, errors |-> errors, warnings |-> warnings,
     schema_version |-> "23.00"]

SCHEMA_SKIPPED == "Schema validation skipped - no schema loaded"

\* the serializer's schema fields
SchemaState(is_loaded, schema, reads) ==
    [is_loaded |-> is_loaded, schema |-> schema, reads |-> reads]

\* load_schema without its first two lines
load_schema_unguarded(s, file) ==
    IF file = "absent" THEN SchemaState(TRUE, None, s.reads)
    ELSE IF file = "valid" THEN SchemaState(TRUE, Some("XMLSchema"), s.reads + 1)
    ELSE SchemaState(TRUE, s.schema, s.reads + 1)

\* validate_xml that parses the bytes before it looks at the schema
ValidationOf_parse_first(schema, bytes) ==
    IF ~bytes.wellformed THEN ValidationResult(FALSE, <<"XML Syntax Error">>, <<>>)
    ELSE IF schema = None THEN ValidationResult(TRUE, <<>>, <<SCHEMA_SKIPPED>>)
    ELSE ValidationResult(bytes.violations = 0, [i \in 1..bytes.violations |-> "Line"], <<>>)

\* load_schema: the fields after the call.  An exception of etree.parse or
\* etree.XMLSchema leaves self._schema as it was and sets the flag.
LoadSchema(s, file) ==
    IF s.is_loaded THEN s
    ELSE IF file = "absent" THEN SchemaState(TRUE, None, s.reads)
    ELSE IF file = "valid" THEN SchemaState(TRUE, Some("XMLSchema"), s.reads + 1)
    ELSE SchemaState(TRUE, s.schema, s.reads + 1)

\* validate_xml after its load_schema call
ValidationOf(schema, bytes) ==
    IF schema = None THEN ValidationResult(TRUE, <<>>, <<SCHEMA_SKIPPED>>)
    ELSE IF ~bytes.wellformed THEN ValidationResult(FALSE, <<"XML Syntax Error">>, <<>>)
    ELSE IF bytes.violations = 0 THEN ValidationResult(TRUE, <<>>, <<>>)
    ELSE ValidationResult(FALSE, [i \in 1..bytes.violations |-> "Line"], <<>>)

SchemaNow == SchemaState(ser_is_loaded, _schema, schema_reads)

SetSchema(s) ==
    /\ ser_is_loaded' = s.is_loaded
    /\ _schema' = s.schema
    /\ schema_reads' = s.reads

\* reads of the schema file a run may hold before its calls stop
MaxReads == 2

ValInit ==
    /\ schema_file \in SchemaFiles
    /\ _schema = None
    /\ ser_is_loaded = FALSE
    /\ schema_reads = 0
    /\ val_in = Malformed
    /\ val_out = None

\* the schema fields of the specifications about the other operations
ValIdle == ValInit /\ schema_file = "absent"

\* the file at schema_path is written, replaced or removed
SchemaFileChange ==
    /\ \E f \in SchemaFiles \ {schema_file} : schema_file' = f
    /\ UNCHANGED <<_schema, ser_is_loaded, schema_reads, val_in, val_out>>

\* await serializer.load_schema()
load_schema ==
    /\ schema_reads < MaxReads
    /\ SetSchema(LoadSchema(SchemaNow, schema_file))
    /\ UNCHANGED <<schema_file, val_in, val_out>>

\* validate_xml(bytes) with the fields s its load_schema call left
Validated(s, bytes) ==
    /\ SetSchema(s)
    /\ val_in' = bytes
    /\ val_out' = Some(ValidationOf(s.schema, bytes))
    /\ UNCHANGED schema_file

\* await serializer.validate_xml(xml_bytes)
validate_xml ==
    /\ schema_reads < MaxReads
    /\ \E bytes \in XmlInputs :
          Validated(IF ser_is_loaded THEN SchemaNow ELSE LoadSchema(SchemaNow, schema_file),
                    bytes)

\* await serializer.generate_and_validate(report): etree.tostring writes
\* well-formed bytes; what the XSD finds in them is the schema's matter
generate_and_validate ==
    /\ schema_reads < MaxReads
    /\ generate_xml
    /\ \E n \in 0..MaxViolations :
          Validated(IF ser_is_loaded THEN SchemaNow ELSE LoadSchema(SchemaNow, schema_file),
                    XmlBytes(TRUE, n))
(***************************************************************************)
(* ExtractorAgent.validate_extraction                                      *)
(*  weights in kg and energy in kWh are integers, dates are day numbers    *)
(***************************************************************************)
\* the fields of an ExtractedActivityData validate_extraction reads
CheckedData(kwh, gross, net, country, period_start, period_end) ==
    [electricity_consumption_kwh |-> kwh,
     gross_weight_kg |-> gross,
     net_weight_kg |-> net,
     country_of_origin |-> country,
     reporting_period_start |-> period_start,
     reporting_period_end |-> period_end]

ELECTRICITY_HIGH == 1000000000

\* bool(x) of an Optional[float]
Truthy(x) == x # None /\ x[1] # 0

IssueIf(cond, issue) == IF cond THEN <<issue>> ELSE <<>>

ElectricityIssues(kwh) ==
    IF kwh # None
    THEN IssueIf(kwh[1] < 0, "Electricity consumption cannot be negative")
         \o IssueIf(kwh[1] > ELECTRICITY_HIGH,
                    "Electricity value appears unrealistically high (> 1 TWh)")
    ELSE <<>>

WeightIssues(gross, net) ==
    IF gross # None
    THEN IssueIf(gross[1] < 0, "Weight cannot be negative")
         \o IssueIf(Truthy(net) /\ net[1] > gross[1], "Net weight exceeds gross weight")
    ELSE <<>>

CountryIssues(country) ==
    IssueIf(country # None /\ country[1] # <<>>
                /\ (Len(country[1]) # 2 \/ ~str_isalpha(country[1])),
            "Invalid country code format")

PeriodIssues(period_start, period_end) ==
    IssueIf(period_start # None /\ period_end # None /\ period_start[1] > period_end[1],
            "Reporting period start date is after end date")

validate_extraction(data) ==
    ElectricityIssues(data.electricity_consumption_kwh)
    \o WeightIssues(data.gross_weight_kg, data.net_weight_kg)
    \o CountryIssues(data.country_of_origin)
    \o PeriodIssues(data.reporting_period_start, data.reporting_period_end)

\* the values a checked field takes: absent, negative, zero, positive
Kwhs == {None, Some(-1), Some(0), Some(125000), Some(2000000000)}
GrossWeights == {None, Some(-5), Some(0), Some(45000)}
NetWeights == {None, Some(-1), Some(0), Some(44800), Some(46000)}
CheckedCountries == {None, Some(<<>>), Some(<<"I","N">>), Some(<<"I","N","D">>),
                     Some(<<"1","2">>)}
MaxPeriodDay == 2
PeriodDays == {None} \cup {Some(d) : d \in 1..MaxPeriodDay}

ChkInit ==
    /\ chk_data \in {CheckedData(kwh, gross, net, country, period_start, period_end) :
                        kwh \in Kwhs, gross \in GrossWeights, net \in NetWeights,
                        country \in CheckedCountries,
                        period_start \in PeriodDays, period_end \in PeriodDays}
    /\ chk_issues = None

\* the data of the specifications about the other operations
ChkIdle ==
    /\ chk_data = CheckedData(None, None, None, None, None, None)
    /\ chk_issues = None

\* issues = agent.validate_extraction(data): the data is read only
ValidateExtraction ==
    /\ chk_issues = None
    /\ chk_issues' = Some(validate_extraction(chk_data))
    /\ UNCHANGED chk_data
(***************************************************************************)
(* UnitConverter.normalize_country                                         *)
(***************************************************************************)
\* COUNTRY_TO_ISO, in the order the dict yields its items
COUNTRY_TO_ISO == <<
    << <<"i","n","d","i","a">>, <<"I","N">> >>,
    << <<"i","n","d","i","a","n">>, <<"I","N">> >>,
    << <<"b","h","a","r","a","t">>, <<"I","N">> >>,
    << <<"c","h","i","n","a">>, <<"C","N">> >>,
    << <<"c","h","i","n","e","s","e">>, <<"C","N">> >>,
    << <<"p","r","c">>, <<"C","N">> >>,
    << <<"g","e","r","m","a","n","y">>, <<"D","E">> >>,
    << <<"g","e","r","m","a","n">>, <<"D","E">> >>,
    << <<"d","e","u","t","s","c","h","l","a","n","d">>, <<"D","E">> >>,
    << <<"u","s","a">>, <<"U","S">> >>,
    << <<"u","n","i","t","e","d"," ","s","t","a","t","e","s">>, <<"U","S">> >>,
    << <<"a","m","e","r","i","c","a">>, <<"U","S">> >>,
    << <<"a","m","e","r","i","c","a","n">>, <<"U","S">> >>,
    << <<"u","k">>, <<"G","B">> >>,
    << <<"u","n","i","t","e","d"," ","k","i","n","g","d","o","m">>, <<"G","B">> >>,
    << <<"b","r","i","t","a","i","n">>, <<"G","B">> >>,
    << <<"b","r","i","t","i","s","h">>, <<"G","B">> >>,
    << <<"f","r","a","n","c","e">>, <<"F","R">> >>,
    << <<"f","r","e","n","c","h">>, <<"F","R">> >>,
    << <<"i","t","a","l","y">>, <<"I","T">> >>,
    << <<"i","t","a","l","i","a","n">>, <<"I","T">> >>,
    << <<"s","p","a","i","n">>, <<"E","S">> >>,
    << <<"s","p","a","n","i","s","h">>, <<"E","S">> >>,
    << <<"j","a","p","a","n">>, <<"J","P">> >>,
    << <<"j","a","p","a","n","e","s","e">>, <<"J","P">> >>,
    << <<"k","o","r","e","a">>, <<"K","R">> >>,
    << <<"s","o","u","t","h"," ","k","o","r","e","a">>, <<"K","R">> >>,
    << <<"k","o","r","e","a","n">>, <<"K","R">> >>,
    << <<"b","r","a","z","i","l">>, <<"B","R">> >>,
    << <<"b","r","a","z","i","l","i","a","n">>, <<"B","R">> >>,
    << <<"r","u","s","s","i","a">>, <<"R","U">> >>,
    << <<"r","u","s","s","i","a","n">>, <<"R","U">> >>,
    << <<"t","u","r","k","e","y">>, <<"T","R">> >>,
    << <<"t","u","r","k","i","s","h">>, <<"T","R">> >>,
    << <<"t","u","r","k","i","y","e">>, <<"T","R">> >>,
    << <<"v","i","e","t","n","a","m">>, <<"V","N">> >>,
    << <<"v","i","e","t","n","a","m","e","s","e">>, <<"V","N">> >>,
    << <<"i","n","d","o","n","e","s","i","a">>, <<"I","D">> >>,
    << <<"i","n","d","o","n","e","s","i","a","n">>, <<"I","D">> >>,
    << <<"m","a","l","a","y","s","i","a">>, <<"M","Y">> >>,
    << <<"m","a","l","a","y","s","i","a","n">>, <<"M","Y">> >>,
    << <<"t","h","a","i","l","a","n","d">>, <<"T","H">> >>,
    << <<"t","h","a","i">>, <<"T","H">> >>,
    << <<"u","a","e">>, <<"A","E">> >>,
    << <<"e","m","i","r","a","t","e","s">>, <<"A","E">> >>,
    << <<"d","u","b","a","i">>, <<"A","E">> >>,
    << <<"s","a","u","d","i">>, <<"S","A">> >>,
    << <<"s","a","u","d","i"," ","a","r","a","b","i","a">>, <<"S","A">> >> >>

CountryNames == {COUNTRY_TO_ISO[i][1] : i \in DOMAIN COUNTRY_TO_ISO}

\* name in text_lower or text_lower in name
NameMatches(name, text_lower) == Contains(text_lower, name) \/ Contains(name, text_lower)

\* the first item of the table the loop returns at, if any
LookupCountry(text_lower) ==
    IF \E i \in DOMAIN COUNTRY_TO_ISO : NameMatches(COUNTRY_TO_ISO[i][1], text_lower)
    THEN Some(COUNTRY_TO_ISO[CHOOSE i \in DOMAIN COUNTRY_TO_ISO :
                 /\ NameMatches(COUNTRY_TO_ISO[i][1], text_lower)
                 /\ \A j \in 1..(i - 1) : ~NameMatches(COUNTRY_TO_ISO[j][1], text_lower)][2])
    ELSE None

NormalizeLowered(country_text, text_lower) ==
    IF Len(text_lower) = 2 /\ str_isalpha(text_lower) THEN str_upper(text_lower)
    ELSE IF LookupCountry(text_lower) # None THEN LookupCountry(text_lower)[1]
    ELSE IF Len(country_text) >= 2 THEN str_upper(str_prefix(country_text, 2))
    ELSE <<"X","X">>

normalize_country(country_text) ==
    IF country_text = <<>> THEN <<>>
    ELSE NormalizeLowered(country_text, str_strip(str_lower(country_text)))

\* the texts passed: every name of the table as it is, in upper case and
\* between white space, and every short text over a few characters
Padded(s) == <<" ">> \o s \o <<"\n">>
MaxCountryLen == 3
CountryChars == {"Q", "z", "1", " ", "\n"}
ShortCountryTexts == UNION {[1..n -> CountryChars] : n \in 0..MaxCountryLen}
TextDigitsFirst == <<"1","2"," ","a","b","c">>
CountryTexts ==
    CountryNames \cup {str_upper(k) : k \in CountryNames} \cup {Padded(k) : k \in CountryNames}
        \cup ShortCountryTexts \cup {TextDigitsFirst}

CtyInit ==
    /\ cty_in \in CountryTexts
    /\ cty_out = None

\* the text of the specifications about the other operations
CtyIdle ==
    /\ cty_in = <<>>
    /\ cty_out = None

\* code = UnitConverter.normalize_country(country_text)
NormalizeCountry ==
    /\ cty_out = None
    /\ cty_out' = Some(normalize_country(cty_in))
    /\ UNCHANGED cty_in
(***************************************************************************)
(* services/cbam_validation.py                                             *)
(*  a report is a dict: a field is None when the key is absent.  Emissions *)
(*  are integers in hundredths, masses in kg, coordinates in degrees.      *)
(***************************************************************************)
VALID_CBAM_CATEGORIES == {"IRON STEEL", "IRON_STEEL", "iron_steel", "ALUMINIUM", "aluminium",
                          "CEMENT", "cement", "FERTILISERS", "FERTILIZERS", "fertilisers",
                          "fertilizers", "HYDROGEN", "hydrogen", "ELECTRICITY", "electricity"}

VALID_COUNTRIES == {<<"A","T">>, <<"B","E">>, <<"B","G">>, <<"C","Y">>, <<"C","Z">>, <<"D","E">>,
                    <<"D","K">>, <<"E","E">>, <<"E","S">>, <<"F","I">>, <<"F","R">>, <<"G","R">>,
                    <<"H","R">>, <<"H","U">>, <<"I","E">>, <<"I","T">>, <<"L","T">>, <<"L","U">>,
                    <<"L","V">>, <<"M","T">>, <<"N","L">>, <<"P","L">>, <<"P","T">>, <<"R","O">>,
                    <<"S","E">>, <<"S","I">>, <<"S","K">>, <<"I","N">>, <<"C","N">>, <<"T","R">>,
                    <<"R","U">>, <<"U","A">>, <<"B","Y">>, <<"E","G">>, <<"Z","A">>, <<"B","R">>,
                    <<"U","S">>, <<"G","B">>}

CBAM_PREFIXES == {<<"7","2">>, <<"7","3">>, <<"7","6">>, <<"2","5">>, <<"2","8">>, <<"3","1">>}

EORI_MIN_LENGTH == 10
EORI_MAX_LENGTH == 17
CN_CODE_LENGTH == 8
UNLOCODE_LENGTH == 5

\* the (valid, message) pair a field validator returns
Verdict(valid, msg) == [valid |-> valid, msg |-> msg]
\* "Warning" in msg
IsWarning(msg) == msg \in {"Warning: CN code prefix may not be CBAM-covered",
                           "Warning: Uncommon country code"}

\* report.get(key, default)
Get(field, default) == IF field = None THEN default ELSE field[1]
\* a or b, of two strings and of two numbers
OrStr(a, b) == IF a = <<>> THEN b ELSE a
OrNum(a, b) == IF a = 0 THEN b ELSE a

EoriVerdict(eori) ==
    IF Len(eori) < EORI_MIN_LENGTH THEN Verdict(FALSE, "EORI number too short")
    ELSE IF Len(eori) > EORI_MAX_LENGTH THEN Verdict(FALSE, "EORI number too long")
    ELSE IF ~str_isalpha(str_prefix(eori, 2))
    THEN Verdict(FALSE, "EORI must start with 2-letter country code")
    ELSE IF ~str_isalnum(SubSeq(eori, 3, Len(eori)))
    THEN Verdict(FALSE, "EORI must contain only letters and numbers after country code")
    ELSE Verdict(TRUE, "Valid")

validate_eori(eori) ==
    IF eori = <<>> THEN Verdict(FALSE, "EORI number is required")
    ELSE EoriVerdict(str_upper(str_strip(eori)))

CnCodeVerdict(cn_code) ==
    IF Len(cn_code) # CN_CODE_LENGTH THEN Verdict(FALSE, "CN code must be exactly 8 digits")
    ELSE IF ~str_isdigit(cn_code) THEN Verdict(FALSE, "CN code must contain only digits")
    ELSE IF str_prefix(cn_code, 2) \notin CBAM_PREFIXES
    THEN Verdict(TRUE, "Warning: CN code prefix may not be CBAM-covered")
    ELSE Verdict(TRUE, "Valid")

validate_cn_code(cn_code) ==
    IF cn_code = <<>> THEN Verdict(FALSE, "CN code is required")
    ELSE CnCodeVerdict(str_remove(str_remove(cn_code, " "), "."))

CountryCodeVerdict(code) ==
    IF Len(code) # 2 THEN Verdict(FALSE, "country code must be 2 letters")
    ELSE IF ~str_isalpha(code) THEN Verdict(FALSE, "country code must contain only letters")
    ELSE IF code \notin VALID_COUNTRIES THEN Verdict(TRUE, "Warning: Uncommon country code")
    ELSE Verdict(TRUE, "Valid")

validate_country_code(code) ==
    IF code = <<>> THEN Verdict(FALSE, "country code is required")
    ELSE CountryCodeVerdict(str_upper(str_strip(code)))

ValidationError(field, message, severity) ==
    [field |-> field, message |-> message, severity |-> severity]

FindingIf(cond, field, message, severity) ==
    IF cond THEN <<ValidationError(field, message, severity)>> ELSE <<>>

Abs(x) == IF x < 0 THEN -x ELSE x

\* abs(total - calculated_total) > 0.01, in hundredths
TOTAL_TOLERANCE == 1
\* specific > 20 and specific < 0.01, where specific = total / net_mass_kg
SPECIFIC_HIGH == 2000
SPECIFIC_LOW == 1

SpecificFindings(total, net_mass_kg) ==
    IF net_mass_kg > 0
    THEN FindingIf(total > SPECIFIC_HIGH * net_mass_kg, "specific_emissions",
                   "Specific emissions seem unusually high", "warning")
         \o FindingIf(total < SPECIFIC_LOW * net_mass_kg /\ total > 0, "specific_emissions",
                      "Specific emissions seem unusually low", "warning")
    ELSE <<>>

validate_emissions(direct, indirect, total, net_mass_kg) ==
    FindingIf(direct < 0, "direct_emissions", "Direct emissions cannot be negative", "error")
    \o FindingIf(indirect < 0, "indirect_emissions",
                 "Indirect emissions cannot be negative", "error")
    \o FindingIf(total < 0, "total_emissions", "Total emissions cannot be negative", "error")
    \o FindingIf(Abs(total - (direct + indirect)) > TOTAL_TOLERANCE, "total_emissions",
                 "Total should equal direct + indirect", "warning")
    \o SpecificFindings(total, net_mass_kg)

\* 2[3-9]|[3-9]\d
YearDigits(a, b) ==
    \/ a = "2" /\ b \in {"3","4","5","6","7","8","9"}
    \/ a \in {"3","4","5","6","7","8","9"} /\ b \in DigitChars

\* re.match(pattern, period): $ also matches before a newline that ends the string
EndsAt(period, n) == Len(period) = n \/ (Len(period) = n + 1 /\ period[n + 1] = "\n")

IsQuarterPeriod(period) ==
    /\ EndsAt(period, 7)
    /\ period[1] = "2" /\ period[2] = "0" /\ YearDigits(period[3], period[4])
    /\ period[5] = "-" /\ period[6] = "Q" /\ period[7] \in {"1","2","3","4"}

IsYearPeriod(period) ==
    /\ EndsAt(period, 4)
    /\ period[1] = "2" /\ period[2] = "0" /\ YearDigits(period[3], period[4])

validate_reporting_period(period) ==
    IF period = <<>> THEN Verdict(FALSE, "Reporting period is required")
    ELSE IF IsQuarterPeriod(period) THEN Verdict(TRUE, "Valid")
    ELSE IF IsYearPeriod(period) THEN Verdict(TRUE, "Valid (year only)")
    ELSE Verdict(FALSE, "Invalid period format")

\* the finding of a field validator: an error when not valid, a warning when
\* valid with a warning message and the caller keeps warnings of this field
VerdictFindings(v, field, keeps_warning) ==
    IF ~v.valid THEN <<ValidationError(field, v.msg, "error")>>
    ELSE IF keeps_warning /\ IsWarning(v.msg) THEN <<ValidationError(field, v.msg, "warning")>>
    ELSE <<>>

CoordinateFindings(lat, lon) ==
    IF lat = None \/ lon = None
    THEN <<ValidationError("coordinates",
                           "Installation coordinates recommended for verification", "warning")>>
    ELSE FindingIf(~(-90 <= lat[1] /\ lat[1] <= 90) \/ ~(-180 <= lon[1] /\ lon[1] <= 180),
                   "coordinates", "Invalid coordinates", "error")

\* every finding of validate_cbam_report, in the order the code makes them
Findings(r, net_mass) ==
    VerdictFindings(validate_eori(Get(r.declarant_eori, <<>>)), "declarant_eori", FALSE)
    \o FindingIf(Get(r.declarant_name, "") = "", "declarant_name",
                 "Declarant name is required", "error")
    \o VerdictFindings(validate_country_code(Get(r.declarant_country, <<>>)),
                       "declarant_country", TRUE)
    \o FindingIf(Get(r.installation_name, "") = "", "installation_name",
                 "Installation name is required", "error")
    \o VerdictFindings(validate_country_code(Get(r.installation_country, <<>>)),
                       "installation_country", FALSE)
    \o FindingIf(Get(r.installation_unlocode, <<>>) # <<>>
                     /\ Len(Get(r.installation_unlocode, <<>>)) # UNLOCODE_LENGTH,
                 "installation_unlocode", "UNLOCODE should be 5 characters", "warning")
    \o CoordinateFindings(r.latitude, r.longitude)
    \o VerdictFindings(validate_cn_code(OrStr(Get(r.cn_code, <<>>), Get(r.hs_code, <<>>))),
                       "cn_code", TRUE)
    \o FindingIf(Get(r.product_description, "") = "", "product_description",
                 "Product description is required", "error")
    \o FindingIf(net_mass <= 0, "net_mass_kg", "Net mass must be greater than 0", "error")
    \o FindingIf(Get(r.cbam_category, "") \notin VALID_CBAM_CATEGORIES, "cbam_category",
                 "Invalid CBAM category", "error")
    \o VerdictFindings(validate_country_code(Get(r.country_of_origin, <<>>)),
                       "country_of_origin", FALSE)
    \o validate_emissions(Get(r.direct_emissions, 0), Get(r.indirect_emissions, 0),
                          Get(r.total_emissions, 0), net_mass)
    \o VerdictFindings(validate_reporting_period(Get(r.reporting_period, <<>>)),
                       "reporting_period", FALSE)

IsError(e) == e.severity = "error"
IsWarningFinding(e) == e.severity # "error"

\* is_valid that also counts the warnings
CbamResult_strict(errors, warnings) ==
    [valid |-> Len(errors) = 0 /\ Len(warnings) = 0,
     schema_version |-> "QReport_ver23.00",
     errors |-> errors,
     warnings |-> warnings]

CbamResult(errors, warnings) ==
    [valid |-> Len(errors) = 0,
     schema_version |-> "QReport_ver23.00",
     errors |-> errors,
     warnings |-> warnings]

SplitFindings(findings) ==
    CbamResult(SelectSeq(findings, IsError), SelectSeq(findings, IsWarningFinding))

validate_cbam_report(r) ==
    SplitFindings(Findings(r, OrNum(Get(r.net_mass_kg, 0), Get(r.net_weight_kg, 0))))

\* the reports validated: every combination of the declarant and installation
\* fields and emissions below, with one of the goods variants
Eoris == {None, Some(<<"D","E","1","2","3">>), Some(<<"D","E","1","2","3","4","5","6","7","8">>), Some(<<" ","d","e","1","2","3","4","5","6","7","8">>), Some(<<"1","2","3","4","5","6","7","8","9","0">>)}
InstallationNames == {None, Some(""), Some("Tata Steel Jamshedpur")}
DeclarantCountries == {None, Some(<<"D","E">>), Some(<<"j","p">>)}
Coordinates == {<<None, None>>, <<Some(22), Some(86)>>, <<Some(95), Some(86)>>}
\* direct, indirect, total
Emissions == {<<8550, 1230, 9780>>, <<8550, 1230, 6000>>, <<-100, 1230, 1130>>}

GoodsFields(cn_code, hs_code, net_mass_kg, net_weight_kg, cbam_category, reporting_period,
            installation_unlocode) ==
    [cn_code |-> cn_code, hs_code |-> hs_code,
     net_mass_kg |-> net_mass_kg, net_weight_kg |-> net_weight_kg,
     cbam_category |-> cbam_category, reporting_period |-> reporting_period,
     installation_unlocode |-> installation_unlocode]

Cn72081000 == <<"7","2","0","8","1","0","0","0">>
Period2024Q4 == <<"2","0","2","4","-","Q","4">>
GoodsDefault ==
    GoodsFields(Some(Cn72081000), None, Some(5000), None, Some("IRON_STEEL"),
                Some(Period2024Q4), None)
GoodsVariants ==
    {GoodsDefault,
     [GoodsDefault EXCEPT !.cn_code = None, !.hs_code = Some(<<"7","2","0","8"," ","1","0"," ","0","0">>)],
     [GoodsDefault EXCEPT !.cn_code = None],
     [GoodsDefault EXCEPT !.cn_code = Some(<<"8","4","0","8","1","0","0","0">>)],
     [GoodsDefault EXCEPT !.cn_code = Some(<<"7","2","0","8">>)],
     [GoodsDefault EXCEPT !.net_mass_kg = None, !.net_weight_kg = Some(1)],
     [GoodsDefault EXCEPT !.net_mass_kg = None],
     [GoodsDefault EXCEPT !.net_mass_kg = Some(45000)],
     [GoodsDefault EXCEPT !.cbam_category = Some("STEEL")],
     [GoodsDefault EXCEPT !.reporting_period = Some(<<"2","0","2","2","-","Q","1">>)],
     [GoodsDefault EXCEPT !.reporting_period = Some(<<"2","0","2","4">>)],
     [GoodsDefault EXCEPT !.reporting_period = None],
     [GoodsDefault EXCEPT !.installation_unlocode = Some(<<"I","N","J","S","R">>)],
     [GoodsDefault EXCEPT !.installation_unlocode = Some(<<"I","N">>)]}

ReportOf(eori, installation_name, declarant_country, coordinates, emissions, goods) ==
    [declarant_eori |-> eori,
     declarant_name |-> Some("Acme Imports GmbH"),
     declarant_country |-> declarant_country,
     installation_name |-> installation_name,
     installation_country |-> Some(<<"I","N">>),
     latitude |-> coordinates[1],
     longitude |-> coordinates[2],
     product_description |-> Some("Hot-rolled steel coils"),
     country_of_origin |-> Some(<<"I","N">>),
     direct_emissions |-> Some(emissions[1]),
     indirect_emissions |-> Some(emissions[2]),
     total_emissions |-> Some(emissions[3])] @@ goods

CbamReports ==
    {ReportOf(eori, installation_name, declarant_country, coordinates, emissions, goods) :
        eori \in Eoris, installation_name \in InstallationNames,
        declarant_country \in DeclarantCountries, coordinates \in Coordinates,
        emissions \in Emissions, goods \in GoodsVariants}

CbamInit ==
    /\ cbam_report \in CbamReports
    /\ cbam_result = None

\* the report of the specifications about the other operations
CbamIdle ==
    /\ cbam_report = ReportOf(None, None, None, <<None, None>>, <<0, 0, 0>>, GoodsDefault)
    /\ cbam_result = None

\* result = validate_cbam_report(report)
ValidateCbamReport ==
    /\ cbam_result = None
    /\ cbam_result' = Some(validate_cbam_report(cbam_report))
    /\ UNCHANGED cbam_report

(***************************************************************************)
(* api/v1/cbam_engine.py: POST /process-full                               *)
(***************************************************************************)
\* the factors are thousandths of tCO2 per tonne, the quantities kg, the
\* emissions numbers of 10^-7 tCO2
DEFAULT_DIRECT_FACTOR == 1900
DEFAULT_INDIRECT_FACTOR == 300
MaxPipelineCalls == 2

FullPipelineRequest(product_description, quantity_kg, direct, indirect) ==
    [product_description |-> product_description,
     quantity_kg |-> quantity_kg,
     direct_emissions_per_tonne |-> direct,
     indirect_emissions_per_tonne |-> indirect]

FullPipelineResponse(status, classification, emissions, xml) ==
    [status |-> status, classification |-> classification, emissions |-> emissions, xml |-> xml]

\* a response that reports success whatever the review status
ReviewNeeded_never(classification) == FALSE

\* line 456: classification.review_status == ReviewStatus.NEEDS_REVIEW
ReviewNeeded(classification) == classification.review_status = "needs_review"

\* the classification dict of both responses
ClassificationSummary(c) ==
    [cn_code |-> c.cn_code_formatted, confidence |-> c.confidence,
     is_cbam |-> c.is_cbam_relevant, review_status |-> c.review_status]

\* lines 471-481: the factors of the request, of the classification, or the
\* iron and steel defaults; `indirect or 0.3` replaces 0.0 as well as None
FactorsOf(request, c) ==
    IF request.direct_emissions_per_tonne # None
    THEN [direct |-> request.direct_emissions_per_tonne[1],
          indirect |-> IF request.indirect_emissions_per_tonne = None
                          \/ request.indirect_emissions_per_tonne = Some(0)
                       THEN DEFAULT_INDIRECT_FACTOR
                       ELSE request.indirect_emissions_per_tonne[1]]
    ELSE IF c.emission_factor # None
    THEN [direct |-> c.emission_factor[1].direct, indirect |-> c.emission_factor[1].indirect]
    ELSE [direct |-> DEFAULT_DIRECT_FACTOR, indirect |-> DEFAULT_INDIRECT_FACTOR]

\* lines 484-487: quantity_kg / 1000 * factor
EmissionsOf(quantity_kg, factor) == quantity_kg * factor * 10

\* lines 489-536: the report of the one goods item
PipelineReport(request, c, now) ==
    [NewReport(Some(now)) EXCEPT
        !.report_id = "CBAM-GENERATED",
        !.goods = <<GoodsItem(1, NatText(c.cn_code),
                              EmissionData(EmissionsOf(request.quantity_kg, FactorsOf(request, c).direct),
                                           EmissionsOf(request.quantity_kg, FactorsOf(request, c).indirect),
                                           0),
                              <<>>)>>]

\* round(x, 4) of the emissions dict
EmissionsSummary(request, c) ==
    [direct_factor_tco2_per_t |-> FactorsOf(request, c).direct,
     indirect_factor_tco2_per_t |-> FactorsOf(request, c).indirect,
     direct_tco2 |-> RoundDiv(EmissionsOf(request.quantity_kg, FactorsOf(request, c).direct), 1000),
     indirect_tco2 |-> RoundDiv(EmissionsOf(request.quantity_kg, FactorsOf(request, c).indirect), 1000),
     total_tco2 |-> RoundDiv(EmissionsOf(request.quantity_kg, FactorsOf(request, c).direct)
                               + EmissionsOf(request.quantity_kg, FactorsOf(request, c).indirect), 1000)]

\* the requests pydantic lets through: descriptions of at least 3 characters
PipelineDescriptions ==
    {DescSteelCoil, DescSteelCoilRaw, DescNonsense, DescStainless, <<Word("aluminium")>>}
Quantities == {2500}
\* direct and indirect factor of the request
RequestFactors ==
    {<<None, None>>, <<None, Some(400)>>, <<Some(2500), None>>, <<Some(2500), Some(0)>>,
     <<Some(2500), Some(400)>>, <<Some(0), None>>}
PipelineRequests ==
    {FullPipelineRequest(d, q, f[1], f[2]) :
        d \in PipelineDescriptions, q \in Quantities, f \in RequestFactors}

PipeInit ==
    /\ pipe_request = None
    /\ pipe_response = None
    /\ pipe_calls = 0

PipeIdle == PipeInit

\* lines 456-468: the review response, the serializer not called
ReviewRequired(request, c) ==
    /\ pipe_response' = Some(FullPipelineResponse("review_required",
                                 Some(ClassificationSummary(c)), None, None))
    /\ UNCHANGED <<serVars, valVars>>

\* lines 470-565: the report built and serializer.generate_and_validate
\* called on it (generate_xml, then validate_xml with its load_schema)
Serialized(request, c, now, schema, violations) ==
    /\ report' = calculate_totals(PipelineReport(request, c, now))
    /\ xml_out' = Some(BuildXml(calculate_totals(PipelineReport(request, c, now)), now))
    /\ ser_calls' = 1
    /\ totals_in' = Some(TotalsOf(PipelineReport(request, c, now)))
    /\ Validated(schema, XmlBytes(TRUE, violations))
    /\ pipe_response' = Some(FullPipelineResponse("success",
                                 Some(ClassificationSummary(c)),
                                 Some(EmissionsSummary(request, c)),
                                 Some([report_id |-> "CBAM-GENERATED",
                                       is_valid |-> ValidationOf(schema.schema, XmlBytes(TRUE, violations)).is_valid,
                                       errors |-> ValidationOf(schema.schema, XmlBytes(TRUE, violations)).errors])))

\* await full_pipeline(request): classifier.classify on the shared classifier,
\* then one of the two responses
full_pipeline(request) ==
    /\ classify(request.product_description)
    /\ UNCHANGED pending
    /\ pipe_request' = Some(request)
    /\ pipe_calls' = pipe_calls + 1
    /\ IF ReviewNeeded(CallClassify(cache, request.product_description).out)
       THEN ReviewRequired(request, CallClassify(cache, request.product_description).out)
       ELSE \E now \in 1..MaxDay, violations \in 0..MaxViolations :
               Serialized(request, CallClassify(cache, request.product_description).out, now,
                          IF ser_is_loaded THEN SchemaNow ELSE LoadSchema(SchemaNow, schema_file),
                          violations)

FullPipeline ==
    /\ pipe_calls < MaxPipelineCalls
    /\ \E request \in PipelineRequests : full_pipeline(request)
(***************************************************************************)
(* Specifications                                                          *)
(***************************************************************************)
\* what a call on one component leaves alone
ClsFrame == UNCHANGED <<serVars, extVars, fmtVars, valVars, chkVars, ctyVars, cbamVars, taskVars, scoreVars, pipeVars, unitVars>>
SerFrame == UNCHANGED <<clsVars, extVars, fmtVars, valVars, chkVars, ctyVars, cbamVars, taskVars, scoreVars, pipeVars, unitVars>>
ExtFrame == UNCHANGED <<clsVars, serVars, fmtVars, valVars, chkVars, ctyVars, cbamVars, taskVars, scoreVars, pipeVars, unitVars>>
FmtFrame == UNCHANGED <<clsVars, serVars, extVars, valVars, chkVars, ctyVars, cbamVars, taskVars, scoreVars, pipeVars, unitVars>>
ValFrame == UNCHANGED <<clsVars, serVars, extVars, fmtVars, chkVars, ctyVars, cbamVars, taskVars, scoreVars, pipeVars, unitVars>>
GenFrame == UNCHANGED <<clsVars, extVars, fmtVars, chkVars, ctyVars, cbamVars, taskVars, scoreVars, pipeVars, unitVars>>
ChkFrame == UNCHANGED <<clsVars, serVars, extVars, fmtVars, valVars, ctyVars, cbamVars, taskVars, scoreVars, pipeVars, unitVars>>
CtyFrame == UNCHANGED <<clsVars, serVars, extVars, fmtVars, valVars, chkVars, cbamVars, taskVars, scoreVars, pipeVars, unitVars>>
CbamFrame == UNCHANGED <<clsVars, serVars, extVars, fmtVars, valVars, chkVars, ctyVars, taskVars, scoreVars, pipeVars, unitVars>>

TaskOthers == UNCHANGED <<serVars, extVars, fmtVars, valVars, chkVars, ctyVars, cbamVars, scoreVars, pipeVars, unitVars>>
PipeFrame == UNCHANGED <<extVars, fmtVars, chkVars, ctyVars, cbamVars, taskVars, scoreVars, unitVars>>
UnitFrame == UNCHANGED <<clsVars, serVars, extVars, fmtVars, valVars, chkVars, ctyVars, cbamVars, taskVars, scoreVars, pipeVars>>
ScoreFrame == UNCHANGED <<clsVars, serVars, extVars, fmtVars, valVars, chkVars, ctyVars, cbamVars, taskVars, pipeVars, unitVars>>

\* the classifier under any history of calls, over Descriptions
Init ==
    /\ ClsInit /\ pending = <<>>
    /\ SerIdle /\ ExtIdle /\ FmtIdle /\ ValIdle /\ ChkIdle /\ CtyIdle /\ CbamIdle /\ TaskIdle /\ ScoreIdle /\ PipeIdle /\ UnitIdle

Next ==
    \/ load_model /\ ClsFrame
    \/ Classify /\ ClsFrame
    \/ BatchClassify /\ ClsFrame
    \/ clear_cache /\ ClsFrame

Spec == Init /\ [][Next]_vars

\* one classify call of a fresh classifier, over WideDescriptions
InitWide ==
    /\ ClsInit
    /\ pending \in {<<d>> : d \in WideDescriptions}
    /\ SerIdle /\ ExtIdle /\ FmtIdle /\ ValIdle /\ ChkIdle /\ CtyIdle /\ CbamIdle /\ TaskIdle /\ ScoreIdle /\ PipeIdle /\ UnitIdle

NextWide == ClassifyPending /\ ClsFrame

SpecWide == InitWide /\ [][NextWide]_vars

\* a report built and changed by its caller, and generate_xml
InitSerializer ==
    /\ SerInit
    /\ ClsIdle /\ ExtIdle /\ FmtIdle /\ ValIdle /\ ChkIdle /\ CtyIdle /\ CbamIdle /\ TaskIdle /\ ScoreIdle /\ PipeIdle /\ UnitIdle

NextSerializer ==
    \/ AddGoods /\ SerFrame
    \/ SetDirect /\ SerFrame
    \/ SetIndirect /\ SerFrame
    \/ SetNodeTotal /\ SerFrame
    \/ SetReportTotals /\ SerFrame
    \/ generate_xml /\ SerFrame

SpecSerializer == InitSerializer /\ [][NextSerializer]_vars

\* one extractor of any backend and its documents
InitExtractor ==
    /\ ExtInit
    /\ ClsIdle /\ SerIdle /\ FmtIdle /\ ValIdle /\ ChkIdle /\ CtyIdle /\ CbamIdle /\ TaskIdle /\ ScoreIdle /\ PipeIdle /\ UnitIdle

NextExtractor ==
    \/ ext_load_model /\ ExtFrame
    \/ extract_from_pdf /\ ExtFrame

SpecExtractor == InitExtractor /\ [][NextExtractor]_vars

\* _format_cn_code over Codes
InitFormat ==
    /\ FmtInit
    /\ ClsIdle /\ SerIdle /\ ExtIdle /\ ValIdle /\ ChkIdle /\ CtyIdle /\ CbamIdle /\ TaskIdle /\ ScoreIdle /\ PipeIdle /\ UnitIdle

NextFormat ==
    \/ FormatCode1 /\ FmtFrame
    \/ FormatCode2 /\ FmtFrame

SpecFormat == InitFormat /\ [][NextFormat]_vars

\* one serializer, its schema file and the calls that use the schema
InitValidator ==
    /\ ValInit /\ SerInit
    /\ ClsIdle /\ ExtIdle /\ FmtIdle /\ ChkIdle /\ CtyIdle /\ CbamIdle /\ TaskIdle /\ ScoreIdle /\ PipeIdle /\ UnitIdle

NextValidator ==
    \/ SchemaFileChange /\ ValFrame
    \/ load_schema /\ ValFrame
    \/ validate_xml /\ ValFrame
    \/ generate_and_validate /\ GenFrame

SpecValidator == InitValidator /\ [][NextValidator]_vars

\* validate_extraction over the data of ChkInit
InitValidateExtraction ==
    /\ ChkInit
    /\ ClsIdle /\ SerIdle /\ ExtIdle /\ FmtIdle /\ ValIdle /\ CtyIdle /\ CbamIdle /\ TaskIdle /\ ScoreIdle /\ PipeIdle /\ UnitIdle

NextValidateExtraction == ValidateExtraction /\ ChkFrame

SpecValidateExtraction == InitValidateExtraction /\ [][NextValidateExtraction]_vars

\* normalize_country over CountryTexts
InitCountry ==
    /\ CtyInit
    /\ ClsIdle /\ SerIdle /\ ExtIdle /\ FmtIdle /\ ValIdle /\ ChkIdle /\ CbamIdle /\ TaskIdle /\ ScoreIdle /\ PipeIdle /\ UnitIdle

NextCountry == NormalizeCountry /\ CtyFrame

SpecCountry == InitCountry /\ [][NextCountry]_vars

\* validate_cbam_report over CbamReports
InitCbam ==
    /\ CbamInit
    /\ ClsIdle /\ SerIdle /\ ExtIdle /\ FmtIdle /\ ValIdle /\ ChkIdle /\ CtyIdle /\ TaskIdle /\ ScoreIdle /\ PipeIdle /\ UnitIdle

NextCbam == ValidateCbamReport /\ CbamFrame

SpecCbam == InitCbam /\ [][NextCbam]_vars

\* reports with amendment fields and goods of the sample emissions, generated
InitAmend ==
    /\ AmendInit
    /\ ClsIdle /\ ExtIdle /\ FmtIdle /\ ValIdle /\ ChkIdle /\ CtyIdle /\ CbamIdle /\ TaskIdle /\ ScoreIdle /\ PipeIdle /\ UnitIdle

NextAmend ==
    \/ AddSampleGoods /\ SerFrame
    \/ generate_xml /\ SerFrame

SpecAmend == InitAmend /\ [][NextAmend]_vars

\* classify calls on one agent with the cache on, their steps interleaved
InitTasks ==
    /\ ClsInit /\ use_cache = TRUE /\ pending = <<>>
    /\ TaskInit
    /\ SerIdle /\ ExtIdle /\ FmtIdle /\ ValIdle /\ ChkIdle /\ CtyIdle /\ CbamIdle /\ ScoreIdle /\ PipeIdle /\ UnitIdle

NextTasks ==
    \/ \E t \in TaskIds : TaskLookup(t) /\ TaskOthers
    \/ \E t \in TaskIds : TaskStore(t) /\ TaskOthers

SpecTasks == InitTasks /\ [][NextTasks]_vars

\* one call of _calculate_match_score, over sets of keywords and the codes
InitScore ==
    /\ ScoreInit
    /\ ClsIdle /\ SerIdle /\ ExtIdle /\ FmtIdle /\ ValIdle /\ ChkIdle /\ CtyIdle /\ CbamIdle /\ TaskIdle /\ PipeIdle /\ UnitIdle

NextScore == CalculateMatchScore /\ ScoreFrame

SpecScore == InitScore /\ [][NextScore]_vars

\* calls of POST /process-full on the module's classifier and serializer
InitPipeline ==
    /\ PipeInit
    /\ ClsInit /\ use_cache = TRUE /\ pending = <<>>
    /\ SerIdle
    /\ ValInit
    /\ ExtIdle /\ FmtIdle /\ ChkIdle /\ CtyIdle /\ CbamIdle /\ TaskIdle /\ ScoreIdle /\ UnitIdle

NextPipeline == FullPipeline /\ PipeFrame

SpecPipeline == InitPipeline /\ [][NextPipeline]_vars

\* one conversion of a number with a unit the patterns capture
InitUnits ==
    /\ UnitInit
    /\ ClsIdle /\ SerIdle /\ ExtIdle /\ FmtIdle /\ ValIdle /\ ChkIdle /\ CtyIdle /\ CbamIdle
    /\ TaskIdle /\ ScoreIdle /\ PipeIdle

NextUnits == ConvertUnit /\ UnitFrame

SpecUnits == InitUnits /\ [][NextUnits]_vars

(***************************************************************************)
(* Properties                                                              *)
(***************************************************************************)
ClassifyReturned == cls_op = "classify" /\ Len(cls_out) = 1

\* C1: classify("stainless steel cold-rolled coil") returns a code of chapter
\* 72, category iron_steel, a confidence of at least 0.85 and review status
\* approved.
C1_StainlessCoilApproved ==
    (ClassifyReturned /\ cls_in = <<DescStainless>>) =>
        /\ cls_out[1].cn_code \div 1000000 = 72
        /\ cls_out[1].cbam_category = Some("iron_steel")
        /\ cls_out[1].confidence >= 850
        /\ cls_out[1].review_status = "approved"

\* C2: a description none of whose tokens is a key of the keyword table (the
\* empty token set included) gets the fallback: code 73181500, confidence
\* 0.40, needs_review.
C2_FallbackWithoutKnownToken ==
    (ClassifyReturned /\ _extract_keywords(cls_in[1]) \cap DOMAIN SEMANTIC_KEYWORDS = {}) =>
        /\ cls_out[1].cn_code = 73181500
        /\ cls_out[1].confidence = 400
        /\ cls_out[1].review_status = "needs_review"

\* C3: for the file name "electricity_bill_oct.pdf" and a text containing
\* "Total units consumed: 125,000 kWh" the extraction returns 125000.0 kWh and
\* 125.0 MWh.
C3_TotalUnitsConsumed ==
    (/\ ext_out # None
     /\ ext_out[1].extraction_method = "regex"
     /\ ext_filename = FileElectricityBill
     /\ Contains(ext_text, TextTotalUnitsConsumed)) =>
        /\ ext_out[1].electricity_consumption_kwh = Some(125000000)
        /\ ext_out[1].electricity_consumption_mwh = Some(125000)

\* the patterns of a family that match somewhere in the text, by index
MatchingPatterns(text, patterns) ==
    {p \in DOMAIN patterns : FindAll(text, patterns[p], 1) # <<>>}

\* the first occurrence of the first pattern, in declared order, that matches
FirstOccurrence(text, patterns) ==
    FindAll(text, patterns[CHOOSE p \in MatchingPatterns(text, patterns) :
                              \A q \in MatchingPatterns(text, patterns) : p <= q], 1)[1]

\* the number of a family's extraction agrees with the first occurrence of the
\* first matching pattern, and a family whose only matching pattern is the
\* last one, on a number that parses to a value other than 0, is extracted
FirstPatternWins(text, patterns, value, raw, family) ==
    /\ (value # None /\ MatchingPatterns(text, patterns) # {}) =>
           raw[family][1] = FirstOccurrence(text, patterns).groups[1]
    /\ (/\ MatchingPatterns(text, patterns) = {Len(patterns)}
        /\ _parse_number(FirstOccurrence(text, patterns).groups[1].d) \notin {None, Some(0)}) =>
           value # None

\* C4: in every family the extracted value comes from the first occurrence of
\* the first pattern, in declared order, that matches: a later pattern or
\* occurrence is never used when an earlier one exists, and a family whose
\* only matching pattern is the last one is still extracted.
C4_FirstPatternFirstOccurrence ==
    (ext_out # None /\ ext_out[1].extraction_method = "regex") =>
        /\ FirstPatternWins(ext_text, ELECTRICITY, ext_out[1].electricity_consumption_kwh,
                            ext_out[1].raw_extractions, "electricity")
        /\ FirstPatternWins(ext_text, WEIGHT, ext_out[1].gross_weight_kg,
                            ext_out[1].raw_extractions, "weight")

\* C5: the Summary generate_xml writes holds the number of top-level goods
\* and the sums of their direct and indirect emissions, and their total is
\* the sum of the two sums, whatever totals the caller had stored.
C5_SummaryRecomputed ==
    xml_out # None =>
        /\ xml_out[1].Summary.TotalGoodsItems = Len(report.goods)
        /\ xml_out[1].Summary.TotalDirectEmissions =
               _format_decimal(Sum(DirectOf(report.goods)), DEFAULT_PRECISION)
        /\ xml_out[1].Summary.TotalIndirectEmissions =
               _format_decimal(Sum(IndirectOf(report.goods)), DEFAULT_PRECISION)
        /\ xml_out[1].Summary.TotalEmissions =
               _format_decimal(Sum(DirectOf(report.goods)) + Sum(IndirectOf(report.goods)),
                               DEFAULT_PRECISION)

\* generate_xml has returned for a report of two goods with emissions, on
\* which the caller had stored other totals
C5_Witness ==
    /\ xml_out # None
    /\ totals_in # None
    /\ totals_in[1].total_emissions \in StoredTotals
    /\ Len(report.goods) = 2
    /\ Sum(DirectOf(report.goods)) > 0
    /\ Sum(IndirectOf(report.goods)) > 0

NodeConsistent(emissions) ==
    emissions.total_emissions_tco2 =
        emissions.direct_emissions_tco2 + emissions.indirect_emissions_tco2

NodeTotals(goods) == [i \in DOMAIN goods |-> goods[i].emissions.total_emissions_tco2]

\* C6: at every XML generation every EmissionData node has its total equal to
\* direct + indirect, also after the caller assigned a field of the node; each
\* Goods element's TotalEmissions is the total of its direct and indirect
\* emissions, and the Summary TotalEmissions is the sum of the items' totals.
C6_NodeTotalsRefreshed ==
    xml_out # None =>
        /\ \A k \in DOMAIN report.goods :
              /\ NodeConsistent(report.goods[k].emissions)
              /\ xml_out[1].GoodsList[k].Emissions.TotalEmissions =
                     _format_decimal(report.goods[k].emissions.direct_emissions_tco2
                                       + report.goods[k].emissions.indirect_emissions_tco2,
                                     DEFAULT_PRECISION)
        /\ xml_out[1].Summary.TotalEmissions =
               _format_decimal(Sum(NodeTotals(report.goods)), DEFAULT_PRECISION)

\* the fields of a result the claim names
Agree(r1, r2) ==
    /\ r1.cn_code = r2.cn_code
    /\ r1.confidence = r2.confidence
    /\ r1.alternative_codes = r2.alternative_codes

\* the description lower-cased and its white space collapsed
NormalForm(d) == CollapseSpace(Lower(d))

\* C7: whatever calls came before, with the cache on or off, classify and
\* batch_classify return one result per description, in order, and each is
\* the result a fresh computation gives for the normalized description (same
\* code, confidence and ordered alternatives).
C7_ResultOfNormalizedText ==
    cls_op \in {"classify", "batch"} =>
        /\ Len(cls_out) = Len(cls_in)
        /\ \A i \in DOMAIN cls_in :
              Agree(cls_out[i], ClassificationOf[NormalForm(cls_in[i])])

\* a batch of two different descriptions of one cache key, answered while the
\* cache already held that key
C7_Witness ==
    /\ cls_op = "batch"
    /\ use_cache
    /\ Len(cls_in) = 2
    /\ cls_in[1] = DescSteelCoilRaw
    /\ cls_in[2] = DescSteelCoil
    /\ DescSteelCoilX \in DOMAIN cache

\* C8: the review status is approved exactly when the returned confidence is
\* at least 0.85 and needs_review otherwise, never rejected, and the note
\* recommending human verification is there exactly when it is needs_review.
C8_ReviewStatusByThreshold ==
    ClassifyReturned =>
        /\ cls_out[1].review_status \in {"approved", "needs_review"}
        /\ (cls_out[1].review_status = "approved") <=> (cls_out[1].confidence >= 850)
        /\ ("recommend_human_verification" \in Range(cls_out[1].classification_notes))
               <=> (cls_out[1].review_status = "needs_review")

\* a result approved with a confidence between the two thresholds
C8_Witness ==
    /\ ClassifyReturned
    /\ cls_out[1].confidence >= 850
    /\ cls_out[1].confidence < 920
    /\ cls_out[1].review_status = "approved"

\* C9: a generate_xml call that follows another on the same report, with a
\* submission date set and no change by the caller in between, returns the
\* same document.
C9_GenerateTwiceSame ==
    [][(xml_out # None /\ report.submission_date # None /\ generate_xml)
          => xml_out' = xml_out]_vars

\* generate_xml has returned twice in a row for a dated report with goods whose
\* totals the first call refreshed from a stored value
C9_Witness ==
    /\ ser_calls = 2
    /\ xml_out # None
    /\ report.submission_date # None
    /\ Len(report.goods) >= 1
    /\ xml_out[1].Summary.TotalEmissions > 0

\* the code with its spaces and periods removed
Stripped(code) == SelectSeq(code, LAMBDA ch : ch \notin {" ", "."})

\* C10: _format_cn_code returns 8 characters, the first 8 of the code without
\* its spaces and periods, padded with "0" on the right, for every code; and
\* it returns its own output unchanged.
C10_EightCharacters ==
    /\ fmt_out # None =>
          /\ Len(fmt_out[1]) = 8
          /\ \A i \in 1..8 :
                fmt_out[1][i] = IF i <= Len(Stripped(fmt_in)) THEN Stripped(fmt_in)[i] ELSE "0"
    /\ fmt_again # None => fmt_again = fmt_out

\* a code that keeps more than 8 characters, with a space or period among its
\* first 8, formatted twice
C10_Witness ==
    /\ fmt_again # None
    /\ Len(Stripped(fmt_in)) > 8
    /\ \E i \in 1..8 : fmt_in[i] \in {" ", "."}

\* C11: without a schema (the file absent when the schema was loaded, no
\* file read) validate_xml returns, for any bytes, is_valid true, no errors
\* and the "schema validation skipped" warning.
C11_SkippedWithoutSchema ==
    /\ (ser_is_loaded /\ schema_reads = 0) => _schema = None
    /\ (val_out # None /\ _schema = None) =>
           /\ val_out[1].is_valid
           /\ val_out[1].errors = <<>>
           /\ SCHEMA_SKIPPED \in Range(val_out[1].warnings)

C11_Witness ==
    /\ val_out # None
    /\ ser_is_loaded /\ schema_reads = 0 /\ _schema = None
    /\ ~val_in.wellformed
    /\ val_out[1].warnings = <<SCHEMA_SKIPPED>>

\* C12: in every serializer state validate_xml called with bytes that are not
\* well-formed XML returns is_valid false with exactly one entry in errors.
C12_MalformedIsOneError ==
    (val_out # None /\ ~val_in.wellformed) =>
        /\ ~val_out[1].is_valid
        /\ Len(val_out[1].errors) = 1

\* C13: over any sequence of load_schema, validate_xml and
\* generate_and_validate calls the schema file is read at most once, and once
\* the loaded flag is set it stays set and the schema object never changes.
C13_SchemaLoadedOnce ==
    [][/\ schema_reads' <= 1
       /\ ser_is_loaded => (ser_is_loaded' /\ _schema' = _schema)]_vars

C13_Witness ==
    /\ ser_is_loaded /\ _schema # None /\ schema_reads = 1
    /\ schema_file = "absent"
    /\ val_out # None /\ val_out[1].warnings = <<>>
    /\ xml_out # None

\* C14: validate_extraction returns the "Net weight exceeds gross weight"
\* issue whenever both weights are present and net_weight_kg > gross_weight_kg,
\* zero and negative values included.
C14_NetExceedsGrossFlagged ==
    (/\ chk_issues # None
     /\ chk_data.gross_weight_kg # None
     /\ chk_data.net_weight_kg # None
     /\ chk_data.net_weight_kg[1] > chk_data.gross_weight_kg[1]) =>
        "Net weight exceeds gross weight" \in Range(chk_issues[1])

IsNegative(x) == x # None /\ x[1] < 0

\* C15: validate_extraction returns at least one issue whenever the gross
\* weight, the net weight or the electricity consumption is negative, and
\* whenever both period dates are present with the start after the end.
C15_NegativeOrReversedFlagged ==
    chk_issues # None =>
        /\ (\/ IsNegative(chk_data.gross_weight_kg)
            \/ IsNegative(chk_data.net_weight_kg)
            \/ IsNegative(chk_data.electricity_consumption_kwh)) => chk_issues[1] # <<>>
        /\ (/\ chk_data.reporting_period_start # None
            /\ chk_data.reporting_period_end # None
            /\ chk_data.reporting_period_start[1] > chk_data.reporting_period_end[1]) =>
               chk_issues[1] # <<>>

\* C16: every non-empty value normalize_country returns is exactly two
\* upper-case letters, whatever the input text.
C16_TwoUppercaseLetters ==
    (cty_out # None /\ cty_out[1] # <<>>) =>
        /\ Len(cty_out[1]) = 2
        /\ \A i \in DOMAIN cty_out[1] : IsUpperChar(cty_out[1][i])

\* C17: for every name or alias of the country table, in any letter case and
\* with surrounding white space, normalize_country returns the code the table
\* assigns to that name.
C17_TableNameGivesItsCode ==
    cty_out # None =>
        \A i \in DOMAIN COUNTRY_TO_ISO :
            str_strip(str_lower(cty_in)) = COUNTRY_TO_ISO[i][1] =>
                cty_out[1] = COUNTRY_TO_ISO[i][2]

\* C18: an extractor given the GPT4 backend and no key has the REGEX backend
\* once its model is loaded, and an extractor given the GPT4, the LAYOUTLM or
\* the REGEX backend returns, for every text and file name and at every
\* call, the result of the regex extraction.
C18_BackendsAgree ==
    /\ (ext_is_loaded /\ ext_configured = "gpt4" /\ ext_api_key = None) =>
           ext_backend = "regex"
    /\ (ext_out # None /\ ext_configured \in {"gpt4", "layoutlm", "regex"}) =>
           ext_out[1] = _extract_with_regex(ext_text, ext_filename)

C18_Witness ==
    /\ ext_configured = "gpt4" /\ ext_api_key = None
    /\ ext_backend = "regex"
    /\ ext_calls = MaxExtractCalls
    /\ ext_out # None
    /\ ext_out[1].electricity_consumption_kwh # None

\* the file name holds one of the words, in any letter case
HasWord(filename, words) == \E w \in words : Contains(LowerChars(filename), w)

\* the type a file name stands for: electricity/bill/power first, then
\* mill/certificate/test, then invoice
TypeByPriority(filename) ==
    IF HasWord(filename, {<<"e","l","e","c","t","r","i","c","i","t","y">>,
                          <<"b","i","l","l">>, <<"p","o","w","e","r">>})
    THEN Some("electricity_bill")
    ELSE IF HasWord(filename, {<<"m","i","l","l">>, <<"t","e","s","t">>,
                               <<"c","e","r","t","i","f","i","c","a","t","e">>})
    THEN Some("mill_test_certificate")
    ELSE IF HasWord(filename, {<<"i","n","v","o","i","c","e">>})
    THEN Some("commercial_invoice")
    ELSE None

FieldsOf(findings) == {findings[i].field : i \in DOMAIN findings}

\* C20: validate_cbam_report returns valid exactly when its errors list is
\* empty; an EORI shorter than 10 characters gives an error on declarant_eori
\* and a missing installation name an error on installation_name; findings of
\* warning severity (a total that differs from direct + indirect, missing
\* coordinates) are in warnings only.
C20_ValidIffNoErrors ==
    cbam_result # None =>
        /\ cbam_result[1].valid <=> cbam_result[1].errors = <<>>
        /\ (cbam_report.declarant_eori # None
               /\ Len(cbam_report.declarant_eori[1]) < EORI_MIN_LENGTH) =>
              "declarant_eori" \in FieldsOf(cbam_result[1].errors)
        /\ cbam_report.installation_name = None =>
              "installation_name" \in FieldsOf(cbam_result[1].errors)
        /\ \A i \in DOMAIN cbam_result[1].errors : cbam_result[1].errors[i].severity = "error"
        /\ \A i \in DOMAIN cbam_result[1].warnings :
              cbam_result[1].warnings[i].severity = "warning"
        /\ (cbam_report.latitude = None \/ cbam_report.longitude = None) =>
              /\ "coordinates" \in FieldsOf(cbam_result[1].warnings)
              /\ "coordinates" \notin FieldsOf(cbam_result[1].errors)
        /\ (/\ cbam_report.total_emissions[1] >= 0
            /\ Abs(cbam_report.total_emissions[1] - (cbam_report.direct_emissions[1]
                       + cbam_report.indirect_emissions[1])) > TOTAL_TOLERANCE) =>
              /\ "total_emissions" \in FieldsOf(cbam_result[1].warnings)
              /\ "total_emissions" \notin FieldsOf(cbam_result[1].errors)

C20_Witness ==
    /\ cbam_result # None
    /\ cbam_result[1].valid
    /\ {"coordinates", "total_emissions"} \subseteq FieldsOf(cbam_result[1].warnings)
    /\ cbam_report.total_emissions[1] #
           cbam_report.direct_emissions[1] + cbam_report.indirect_emissions[1]

\* the goods of the report that carry the sample emissions 85.5 and 12.3
SampleGoods ==
    {k \in DOMAIN report.goods :
        /\ report.goods[k].emissions.direct_emissions_tco2 = SAMPLE_DIRECT
        /\ report.goods[k].emissions.indirect_emissions_tco2 = SAMPLE_INDIRECT}

\* C21: an EmissionData constructed with direct 85.5 and indirect 12.3 has the
\* total 97.8 whatever total was passed, and the XML of a goods item carrying
\* it has the TotalEmissions value "97.800000".
C21_SampleTotal ==
    \A k \in SampleGoods :
        /\ report.goods[k].emissions.total_emissions_tco2 = 978000000
        /\ xml_out # None =>
              DecimalText(xml_out[1].GoodsList[k].Emissions.TotalEmissions, DEFAULT_PRECISION)
                  = <<"9", "7", ".", "8", "0", "0", "0", "0", "0">>

C21_Witness ==
    /\ xml_out # None
    /\ SampleGoods # {}
    /\ xml_out[1].GoodsList[1].Emissions.TotalEmissions = 97800000

\* C23: for a report with is_amendment true the Header has IsAmendment "true",
\* OriginalReportReference whenever original_report_id is set and
\* AmendmentReason whenever amendment_reason is set; with is_amendment false
\* neither element is written.
C23_AmendmentElements ==
    xml_out # None =>
        IF report.is_amendment
        THEN /\ xml_out[1].Header.IsAmendment = "true"
             /\ report.original_report_id # None =>
                    xml_out[1].Header.OriginalReportReference = report.original_report_id
             /\ report.amendment_reason # None =>
                    xml_out[1].Header.AmendmentReason = report.amendment_reason
        ELSE /\ xml_out[1].Header.IsAmendment = "false"
             /\ xml_out[1].Header.OriginalReportReference = None
             /\ xml_out[1].Header.AmendmentReason = None

\* what a classify call made alone on a fresh agent returns for the text
LoneCall(d) == CallClassify(<<>>, d).out

\* the calls that finished are answered as a lone call would be, and every
\* cache entry is the classification of the normalized text of its key
AnsweredAsAlone ==
    /\ \A t \in DOMAIN tasks : tasks[t].pc = "done" => tasks[t].out = Some(LoneCall(tasks[t].desc))
    /\ \A key \in DOMAIN cache : cache[key] = LoneCall(key)

\* C22: for any interleaving of concurrent classify calls on one agent with
\* the cache enabled, every call returns the result a lone sequential call
\* would return, every cache entry holds the classification of the normalized
\* text of its key, and a second write of a key stores an equal value.
C22_InterleavedCallsAgree ==
    /\ []AnsweredAsAlone
    /\ [][\A key \in DOMAIN cache : key \in DOMAIN cache' /\ cache'[key] = cache[key]]_vars

\* two calls with one key that both missed the cache and both stored
C22_Witness ==
    \E t, u \in DOMAIN tasks :
        /\ t # u
        /\ tasks[t].desc # tasks[u].desc
        /\ _get_cache_key(tasks[t].desc) = _get_cache_key(tasks[u].desc)
        /\ tasks[t].pc = "done" /\ ~tasks[t].hit
        /\ tasks[u].pc = "done" /\ ~tasks[u].hit

\* C24: the adjustment of _calculate_match_score for the number of matched
\* keywords is a boost: the score returned is never lower than the normalized
\* score before the adjustment, and it lies in [0, 1].
C24_AdjustmentIsBoost ==
    score_out # None =>
        /\ score_out[1].score >= score_out[1].normalized
        /\ score_out[1].score >= 0
        /\ score_out[1].score <= score_out[1].den

\* the scores of the codes of the taxonomy for the text of the last classify
\* call, by position in the taxonomy, and the positions scoring above 0.30
ScoresOfCall ==
    [i \in DOMAIN CN_CODE_DATABASE |->
        _calculate_match_score(_extract_keywords(cls_in[1]), CN_CODE_DATABASE[i].code).score]
CandidatesOf(scores) ==
    {i \in DOMAIN scores : scores[i] > CONSIDERATION_THRESHOLD * ScoreDen(_extract_keywords(cls_in[1]))}
PositionOf(formatted) ==
    CHOOSE i \in DOMAIN CN_CODE_DATABASE : FormatCode(CN_CODE_DATABASE[i].code) = formatted
\* candidate i is listed before candidate j
Before(scores, i, j) == scores[i] > scores[j] \/ (scores[i] = scores[j] /\ i < j)

RankedAsClaimed(scores, cands, r) ==
    LET p == PositionOf(r.cn_code_formatted)
        alt(n) == PositionOf(r.alternative_codes[n].code)
        listed == {p} \cup {alt(n) : n \in DOMAIN r.alternative_codes}
    IN  /\ p \in cands
        /\ \A i \in cands : scores[i] <= scores[p]
        /\ Len(r.alternative_codes) = Min(Cardinality(cands) - 1, MAX_ALTERNATIVES)
        /\ \A n \in DOMAIN r.alternative_codes :
              /\ alt(n) \in cands
              /\ alt(n) # p
              /\ r.alternative_codes[n].score = scores[alt(n)]
              /\ Before(scores, IF n = 1 THEN p ELSE alt(n - 1), alt(n))
              /\ r.alternative_codes[n].score * 1000 <= r.confidence * r.alternative_codes[n].den
        /\ \A i \in cands \ listed : \A j \in listed : Before(scores, j, i)

\* C25: when at least one code scores above 0.30, the primary code has a
\* maximal score, the alternatives are the next candidates (at most three) in
\* non-increasing order of score with ties in taxonomy order, no candidate at
\* or below 0.30 is listed, the primary code is not among the alternatives,
\* and no alternative's score exceeds the returned confidence.
C25_RankedAlternatives ==
    (cls_op = "classify" /\ CandidatesOf(ScoresOfCall) # {}) =>
        RankedAsClaimed(ScoresOfCall, CandidatesOf(ScoresOfCall), cls_out[1])

\* the fields of a result agree with its code and with the chapter table
ConsistentResult(r) ==
    /\ \E i \in DOMAIN CN_CODE_DATABASE : CN_CODE_DATABASE[i].code = r.cn_code
    /\ r.cn_code >= 10000000 /\ r.cn_code <= 99999999
    /\ r.chapter = r.cn_code \div 1000000
    /\ r.cn_code_formatted = <<r.cn_code \div 10000, (r.cn_code \div 100) % 100, r.cn_code % 100>>
    /\ r.cbam_category = (IF r.chapter \in DOMAIN CBAM_CHAPTERS
                          THEN Some(CBAM_CHAPTERS[r.chapter]) ELSE None)
    /\ r.emission_factor = (IF r.cbam_category # None
                            THEN Some(DEFAULT_EMISSION_FACTORS[r.cbam_category[1]]) ELSE None)
    /\ r.is_cbam_relevant = (r.cbam_category # None)
    /\ (\E n \in DOMAIN r.classification_notes : r.classification_notes[n] = "not_cbam")
           <=> r.cbam_category = None

\* C26: in every classification result, the fallback included, cn_code is an
\* 8-digit key of the taxonomy, chapter is its first two digits,
\* cn_code_formatted groups it 4-2-2, cbam_category is the entry of the
\* chapter table, emission_factor the default factor of the category,
\* is_cbam_relevant says that the category is present and the note "not
\* subject to CBAM" is there exactly when it is absent.
C26_ResultConsistent ==
    cls_op = "classify" => ConsistentResult(cls_out[1])

\* a result of a chapter other than 72 and 73 was returned
C26_Witness ==
    /\ cls_op = "classify"
    /\ cls_out[1].cbam_category \in {Some("aluminium"), Some("cement"), Some("fertilizers"), Some("hydrogen")}
    /\ cls_out[1].chapter \in {25, 28, 31, 76}

\* a step is a call of full_pipeline
PipelineCalled == pipe_calls' = pipe_calls + 1
\* the classification of the request of the call, as classify alone gives it
ClassificationOfRequest == LoneCall(pipe_request'[1].product_description)

\* C27: the full pipeline never calls the serializer for a classification
\* that needs review: it returns the status "review_required" with no
\* emissions and no xml; a response with the status "success" and an xml part
\* is of an approved classification, of confidence at least 0.85.
C27_NoXmlWithoutApproval ==
    [][PipelineCalled =>
          /\ ClassificationOfRequest.review_status = "needs_review" =>
                /\ pipe_response'[1].status = "review_required"
                /\ pipe_response'[1].emissions = None
                /\ pipe_response'[1].xml = None
                /\ UNCHANGED <<serVars, valVars>>
          /\ (pipe_response'[1].status = "success" /\ pipe_response'[1].xml # None) =>
                /\ ClassificationOfRequest.review_status = "approved"
                /\ ClassificationOfRequest.confidence >= CONFIDENCE_THRESHOLD
                /\ pipe_response'[1].classification[1].confidence >= CONFIDENCE_THRESHOLD]_vars

\* a review response was returned after a success wrote its XML: the
\* serializer's output is still that of the earlier call
C27_Witness ==
    /\ pipe_calls = 2
    /\ pipe_response[1].status = "review_required"
    /\ xml_out # None
    /\ pipe_response[1].classification[1].confidence < CONFIDENCE_THRESHOLD

\* C30: every unit token the electricity and the weight patterns can capture,
\* in any letter case, has an entry in the conversion table of its family, so
\* that none is converted with the default multiplier 1.0; a captured
\* megawatt unit is scaled by 1000 and a gigawatt unit by 1000000.
C30_CapturedUnitsConverted ==
    unit_out # None =>
        /\ unit_token.w \in DOMAIN (IF unit_family = "energy" THEN ENERGY_TO_KWH ELSE WEIGHT_TO_KG)
        /\ (unit_family = "energy" /\ unit_token.w \in {"mw", "mwh"}) =>
               unit_out[1] = 1000 * unit_value
        /\ (unit_family = "energy" /\ unit_token.w \in {"gw", "gwh"}) =>
               unit_out[1] = 1000000 * unit_value

\* a match of the family's patterns whose number _parse_number gives up on
NumberFails(text, patterns) ==
    \E i \in DOMAIN _apply_pattern(text, patterns) :
        /\ _apply_pattern(text, patterns)[i].is_tuple
        /\ Len(_apply_pattern(text, patterns)[i].groups) >= 2
        /\ _parse_number(_apply_pattern(text, patterns)[i].groups[1].d) = None

\* the first date match is read and the day it names does not exist
DateFails(text) ==
    /\ FirstTuple(_apply_pattern(text, DATE)) # None
    /\ \/ PeriodStart(FirstTuple(_apply_pattern(text, DATE))) = None
       \/ /\ Len(FirstTuple(_apply_pattern(text, DATE))[1]) >= 6
          /\ PeriodEnd(FirstTuple(_apply_pattern(text, DATE))) = None

\* C28: when a fragment matched by an extraction pattern does not parse (a
\* number such as "1.2.3", a date such as 31/02/2024) and no other match of
\* the family gives the field a value, the regex backend returns a result in
\* which the field is unset and extraction_warnings has an entry.
C28_UnparsedFragmentWarned ==
    (ext_out # None /\ ext_out[1].extraction_method = "regex") =>
        /\ (/\ NumberFails(ext_text, ELECTRICITY)
            /\ FirstUsable(_apply_pattern(ext_text, ELECTRICITY)) = None)
           => (/\ ext_out[1].electricity_consumption_kwh = None
               /\ ext_out[1].extraction_warnings # <<>>)
        /\ (/\ NumberFails(ext_text, WEIGHT)
            /\ FirstUsable(_apply_pattern(ext_text, WEIGHT)) = None)
           => (/\ ext_out[1].gross_weight_kg = None
               /\ ext_out[1].extraction_warnings # <<>>)
        /\ DateFails(ext_text)
           => (/\ \/ ext_out[1].reporting_period_start = None
                  \/ ext_out[1].reporting_period_end = None
               /\ ext_out[1].extraction_warnings # <<>>)

\* the fields of a result that have a confidence score
ScoredFields(r) == DOMAIN r.confidence_scores

\* C29: in every result of extract_from_pdf a field has a confidence score
\* only if it holds a value, every score lies between 0 and 1 (0..100 in
\* hundredths), and electricity_consumption_kwh and electricity_consumption_mwh
\* are both unset or both set with the MWh value a thousandth of the kWh value.
C29_ScoredFieldsHaveValues ==
    ext_out # None =>
        /\ \A f \in ScoredFields(ext_out[1]) :
               /\ ext_out[1][f] # None
               /\ ext_out[1].confidence_scores[f] \in 0..100
        /\ (ext_out[1].electricity_consumption_kwh = None)
               <=> (ext_out[1].electricity_consumption_mwh = None)
        /\ ext_out[1].electricity_consumption_kwh # None =>
               ext_out[1].electricity_consumption_mwh
                   = Some(to_mwh(ext_out[1].electricity_consumption_kwh[1]))
====
